---- MODULE Spec2Model ----
(***************************************************************************)
(* Connection dispatch, header sanitization and per-IP admission of the    *)
(* Andromeda proxy server.                                                  *)
(*                                                                          *)
(* Two variants of the server entry point are in the repository:           *)
(*   "index"    - src/server/index.ts                                       *)
(*   "part_000" - src/unnamed/part_000                                      *)
(* The model runs one of them, chosen in Init.                              *)
(*                                                                          *)
(* Node runs every event callback to completion, so one callback is in     *)
(* progress at a time: cur is the event being handled and the position of  *)
(* its callback.  What outlives a callback (the admission table, pending   *)
(* promise rejections, the process) is kept in the other variables.        *)
(*                                                                          *)
(* The admission controller alone (AdmitSpec, ReclaimSpec), the sanitizers *)
(* as functions (SanitizerSpec) and the two outbound transport guards of   *)
(* src/public, stepped together on the same calls (GuardSpec), are          *)
(* specifications of their own over the same variables.  So are the calls  *)
(* that sanitize a caller's header map (PureSpec), the configuration read  *)
(* from the environment (ConfigSpec) and the client's Settings singleton   *)
(* of src/utils/settings.ts (SettingsSpec).                                 *)
(***************************************************************************)
EXTENDS Integers, Sequences, FiniteSets, TLC

(***************************************************************************)
(* Bounds of the model.                                                     *)
(***************************************************************************)
\* number of events (requests, upgrades, errors) the server is given
MaxEvents == 3
\* seconds that pass in the admission specification
MaxTime == 7
\* number of admit calls made in the stand-alone admission specification
MaxCalls == 4
\* the limiter configuration the process is started with (the environment
\* variables BARE_MAX_CONNECTIONS_PER_IP, BARE_WINDOW_DURATION and
\* BARE_BLOCK_DURATION, in place of the defaults 1000 / 60 / 30)
BareMaxConnectionsPerIP == 2
BareWindowDuration == 3
BareBlockDuration == 2

(***************************************************************************)
(* Characters are code points.  Header values are sequences of them.       *)
(***************************************************************************)
NUL == 0
SOH == 1
HTAB == 9
LF == 10
CR == 13
SP == 32
DEL == 127

RECURSIVE RemoveChars(_, _)
\* value.replace(/[set]/g, "")
RemoveChars(s, set) ==
    IF s = <<>> THEN <<>>
    ELSE IF Head(s) \in set THEN RemoveChars(Tail(s), set)
         ELSE <<Head(s)>> \o RemoveChars(Tail(s), set)

RECURSIVE ReplaceNewlines(_)
\* value.replace(/\r?\n/g, " ")
ReplaceNewlines(s) ==
    IF s = <<>> THEN <<>>
    ELSE IF Head(s) = LF THEN <<SP>> \o ReplaceNewlines(Tail(s))
    ELSE IF Head(s) = CR /\ Len(s) >= 2 /\ s[2] = LF
         THEN <<SP>> \o ReplaceNewlines(Tail(Tail(s)))
    ELSE <<Head(s)>> \o ReplaceNewlines(Tail(s))

\* the white space String.prototype.trim removes
IsJsWhiteSpace(c) ==
    c \in {9, 10, 11, 12, 13, 32, 160, 5760, 8232, 8233, 8239, 8287, 12288, 65279}
    \/ (c >= 8192 /\ c <= 8202)

RECURSIVE TrimStart(_)
TrimStart(s) ==
    IF s # <<>> /\ IsJsWhiteSpace(Head(s)) THEN TrimStart(Tail(s)) ELSE s

RECURSIVE TrimEnd(_)
TrimEnd(s) ==
    IF s # <<>> /\ IsJsWhiteSpace(s[Len(s)])
    THEN TrimEnd(SubSeq(s, 1, Len(s) - 1)) ELSE s

\* String.prototype.trim
Trim(s) == TrimEnd(TrimStart(s))

(***************************************************************************)
(* A header value is [k |-> "str", v |-> chars], an array                  *)
(* [k |-> "arr", v |-> <<chars, ...>>], or [k |-> "undef"].                 *)
(***************************************************************************)
Str(s) == [k |-> "str", v |-> s]
Arr(a) == [k |-> "arr", v |-> a]
Undef == [k |-> "undef"]

\* sanitizeHeaderValue of src/server/index.ts, on a string
sanitizeHeaderValue(s) ==
    Trim(RemoveChars(RemoveChars(s, {NUL, CR, LF}),
                     (1 .. 8) \cup {11, 12} \cup (14 .. 31) \cup {DEL}))

\* sanitizeHeaderValue of src/unnamed/part_000, on a string
sanitizeHeaderValueP(s) ==
    Trim(ReplaceNewlines(RemoveChars(s, (0 .. 8) \cup (10 .. 31) \cup {DEL})))

\* sanitizeHeaderValue of variant v
SanitizeString(v, s) ==
    IF v = "index" THEN sanitizeHeaderValue(s) ELSE sanitizeHeaderValueP(s)

\* one entry of the loop of sanitizeRequestHeaders / sanitizeHeaders
SanitizeEntry(v, val) ==
    IF val.k = "arr"
    THEN Arr([i \in 1 .. Len(val.v) |-> SanitizeString(v, val.v[i])])
    ELSE Str(SanitizeString(v, val.v))

\* sanitizeRequestHeaders(req): req.headers after the call; undefined values
\* are skipped and stay as they are
sanitizeRequestHeaders(h) ==
    [n \in DOMAIN h |->
        IF h[n].k = "undef" THEN h[n] ELSE SanitizeEntry("index", h[n])]

\* sanitizeHeaders of src/unnamed/part_000: a new object without the
\* undefined values
sanitizeHeaders(h) ==
    [n \in {m \in DOMAIN h : h[m].k # "undef"} |->
        SanitizeEntry("part_000", h[n])]

(***************************************************************************)
(* The outbound transport guards: src/public/epoxy-safe/index.mjs and      *)
(* src/public/libcurl-safe/index.mjs (the same code but for the class      *)
(* names).  A headers object is [k |-> "obj", v |-> entries], entries being *)
(* the sequence of its [name |-> chars, value |-> header value] in         *)
(* property order.  A value that is neither a string nor an array is       *)
(* [k |-> "other", v |-> chars], chars being what String(value) gives.     *)
(***************************************************************************)
NonStr(s) == [k |-> "other", v |-> s]
Obj(entries) == [k |-> "obj", v |-> entries]

\* String(value)
StringOf(val) ==
    IF val.k = "undef" THEN <<117, 110, 100, 101, 102, 105, 110, 101, 100>>
    ELSE val.v

\* the characters /[\x00-\x08\x0A-\x1F\x7F]/g matches
PRIMARY_SANITIZE_PATTERN == (0 .. 8) \cup (10 .. 31) \cup {DEL}

\* c matches /[^\x20-\x7E]/g
STRICT_SANITIZE_PATTERN(c) == ~(c >= 32 /\ c <= 126)

\* value.replace(STRICT_SANITIZE_PATTERN, "")
ReplaceStrict(s) == SelectSeq(s, LAMBDA c : ~STRICT_SANITIZE_PATTERN(c))

RECURSIVE RemoveFirst(_, _)
\* value.replace(/[set]/, ""): the pattern without its g flag
RemoveFirst(s, set) ==
    IF s = <<>> THEN <<>>
    ELSE IF Head(s) \in set THEN Tail(s)
         ELSE <<Head(s)>> \o RemoveFirst(Tail(s), set)

\* sanitizeHeaderValue whose pattern has lost the g flag
sanitizeHeaderValueTFirstOnly(val) ==
    RemoveFirst(StringOf(val), PRIMARY_SANITIZE_PATTERN)

\* sanitizeHeaderValue of the transport guards
sanitizeHeaderValueT(val) == RemoveChars(StringOf(val), PRIMARY_SANITIZE_PATTERN)

\* sanitized[key] = val
SetProperty(obj, key, val) ==
    IF \E i \in 1 .. Len(obj) : obj[i].name = key
    THEN [i \in 1 .. Len(obj) |->
             IF obj[i].name = key THEN [name |-> key, value |-> val] ELSE obj[i]]
    ELSE Append(obj, [name |-> key, value |-> val])

\* the value stored for an entry, with the elements that sanitize to the
\* empty string filtered out of an array
SanitizeValueTDropEmpty(val) ==
    IF val.k = "arr"
    THEN Arr(SelectSeq([i \in 1 .. Len(val.v) |-> sanitizeHeaderValueT(Str(val.v[i]))],
                       LAMBDA e : e # <<>>))
    ELSE Str(sanitizeHeaderValueT(val))

\* the value sanitizeHeaders of the transport guards stores for an entry
SanitizeValueT(val) ==
    IF val.k = "arr"
    THEN Arr([i \in 1 .. Len(val.v) |-> sanitizeHeaderValueT(Str(val.v[i]))])
    ELSE Str(sanitizeHeaderValueT(val))

RECURSIVE SanitizeEntriesTEmptyOnly(_, _)
\* the loop of sanitizeHeaders skipping only the names that sanitize to the
\* empty string, not those that sanitize to white space
SanitizeEntriesTEmptyOnly(entries, sanitized) ==
    IF entries = <<>> THEN sanitized
    ELSE LET sanitizedKey == sanitizeHeaderValueT(Str(Head(entries).name))
         IN  IF sanitizedKey = <<>>
             THEN SanitizeEntriesTEmptyOnly(Tail(entries), sanitized)
             ELSE SanitizeEntriesTEmptyOnly(Tail(entries),
                      SetProperty(sanitized, sanitizedKey,
                                  SanitizeValueT(Head(entries).value)))

RECURSIVE SanitizeEntriesT(_, _)
\* the loop of sanitizeHeaders of the transport guards
SanitizeEntriesT(entries, sanitized) ==
    IF entries = <<>> THEN sanitized
    ELSE LET sanitizedKey == sanitizeHeaderValueT(Str(Head(entries).name))
         IN  IF sanitizedKey = <<>> \/ Trim(sanitizedKey) = <<>>
             THEN SanitizeEntriesT(Tail(entries), sanitized)
             ELSE SanitizeEntriesT(Tail(entries),
                      SetProperty(sanitized, sanitizedKey,
                                  SanitizeValueT(Head(entries).value)))

\* sanitizeHeaders of the transport guards; headers that are no object
\* (undefined) are returned as they are
sanitizeHeadersT(headers) ==
    IF headers = Undef THEN headers ELSE Obj(SanitizeEntriesT(headers.v, <<>>))

\* String.prototype.toLowerCase, on the ASCII letters
ToLowerCase(s) ==
    [i \in 1 .. Len(s) |-> IF s[i] >= 65 /\ s[i] <= 90 THEN s[i] + 32 ELSE s[i]]

\* accept, accept-language, content-type, content-length, user-agent
SafeHeaderNames ==
    { <<97, 99, 99, 101, 112, 116>>,
      <<97, 99, 99, 101, 112, 116, 45, 108, 97, 110, 103, 117, 97, 103, 101>>,
      <<99, 111, 110, 116, 101, 110, 116, 45, 116, 121, 112, 101>>,
      <<99, 111, 110, 116, 101, 110, 116, 45, 108, 101, 110, 103, 116, 104>>,
      <<117, 115, 101, 114, 45, 97, 103, 101, 110, 116>> }

RECURSIVE MinimalEntriesExactCase(_, _)
\* the loop that builds minimalHeaders comparing the names as they are
\* written, without toLowerCase
MinimalEntriesExactCase(entries, minimal) ==
    IF entries = <<>> THEN minimal
    ELSE LET key == Head(entries).name
             value == Head(entries).value
         IN  IF key \in SafeHeaderNames
             THEN MinimalEntriesExactCase(Tail(entries),
                      SetProperty(minimal, key,
                                  IF value.k = "str" THEN Str(ReplaceStrict(value.v))
                                  ELSE value))
             ELSE MinimalEntriesExactCase(Tail(entries), minimal)

RECURSIVE MinimalEntries(_, _)
\* the loop that builds minimalHeaders
MinimalEntries(entries, minimal) ==
    IF entries = <<>> THEN minimal
    ELSE LET key == Head(entries).name
             value == Head(entries).value
         IN  IF ToLowerCase(key) \in SafeHeaderNames
             THEN MinimalEntries(Tail(entries),
                      SetProperty(minimal, key,
                                  IF value.k = "str" THEN Str(ReplaceStrict(value.v))
                                  ELSE value))
             ELSE MinimalEntries(Tail(entries), minimal)

\* minimalHeaders of request: Object.entries(sanitizedHeaders || {})
minimalHeaders(sanitizedHeaders) ==
    IF sanitizedHeaders = Undef THEN Obj(<<>>)
    ELSE Obj(MinimalEntries(sanitizedHeaders.v, <<>>))

(***************************************************************************)
(* src/public/libcurl-safe/index.mjs: the same functions with their         *)
(* patterns written in place.                                               *)
(***************************************************************************)
\* sanitizeHeaderValue of libcurl-safe with \x0B-\x1F in its pattern: the
\* line feed stays
sanitizeHeaderValueLKeepLF(val) ==
    RemoveChars(StringOf(val), (0 .. 8) \cup (11 .. 31) \cup {DEL})

\* sanitizeHeaderValue of libcurl-safe: /[\x00-\x08\x0A-\x1F\x7F]/g
sanitizeHeaderValueL(val) ==
    RemoveChars(StringOf(val), (0 .. 8) \cup (10 .. 31) \cup {DEL})

\* the value sanitizeHeaders of libcurl-safe stores for an entry
SanitizeValueL(val) ==
    IF val.k = "arr"
    THEN Arr([i \in 1 .. Len(val.v) |-> sanitizeHeaderValueL(Str(val.v[i]))])
    ELSE Str(sanitizeHeaderValueL(val))

RECURSIVE SanitizeEntriesL(_, _)
\* the loop of sanitizeHeaders of libcurl-safe
SanitizeEntriesL(entries, sanitized) ==
    IF entries = <<>> THEN sanitized
    ELSE LET sanitizedKey == sanitizeHeaderValueL(Str(Head(entries).name))
         IN  IF sanitizedKey = <<>> \/ Trim(sanitizedKey) = <<>>
             THEN SanitizeEntriesL(Tail(entries), sanitized)
             ELSE SanitizeEntriesL(Tail(entries),
                      SetProperty(sanitized, sanitizedKey,
                                  SanitizeValueL(Head(entries).value)))

\* sanitizeHeaders of libcurl-safe
sanitizeHeadersL(headers) ==
    IF headers = Undef THEN headers ELSE Obj(SanitizeEntriesL(headers.v, <<>>))

\* value.replace(/[^\x20-\x7E]/g, "")
ReplaceStrictL(s) == SelectSeq(s, LAMBDA c : c >= 32 /\ c <= 126)

RECURSIVE MinimalEntriesL(_, _)
\* the loop that builds minimalHeaders in libcurl-safe
MinimalEntriesL(entries, minimal) ==
    IF entries = <<>> THEN minimal
    ELSE LET key == Head(entries).name
             value == Head(entries).value
         IN  IF ToLowerCase(key) \in SafeHeaderNames
             THEN MinimalEntriesL(Tail(entries),
                      SetProperty(minimal, key,
                                  IF value.k = "str" THEN Str(ReplaceStrictL(value.v))
                                  ELSE value))
             ELSE MinimalEntriesL(Tail(entries), minimal)

\* minimalHeaders of request in libcurl-safe
minimalHeadersL(sanitizedHeaders) ==
    IF sanitizedHeaders = Undef THEN Obj(<<>>)
    ELSE Obj(MinimalEntriesL(sanitizedHeaders.v, <<>>))

(***************************************************************************)
(* URLs are sequences of tokens: "/" and path segments.                     *)
(***************************************************************************)
NoUrl == <<"undefined">>

\* String.prototype.startsWith
StartsWith(s, p) == Len(s) >= Len(p) /\ SubSeq(s, 1, Len(p)) = p

\* endsWith mistaken for includes
EndsWithAnywhere(s, p) ==
    \E i \in 1 .. (Len(s) - Len(p) + 1) : SubSeq(s, i, i + Len(p) - 1) = p

\* String.prototype.endsWith
EndsWith(s, p) == Len(s) >= Len(p) /\ SubSeq(s, Len(s) - Len(p) + 1, Len(s)) = p

\* req.url?.endsWith(suffix): undefined (falsy) when the request has no url
UrlEndsWith(url, suffix) == url # NoUrl /\ EndsWith(url, suffix)

\* the directory the tunnel-protocol handler is created with
BareDirectory == <<"/", "bare", "/">>

\* bareServer.shouldRoute(req): the request path is under the bare directory
shouldRoute(req) == req.url # NoUrl /\ StartsWith(req.url, BareDirectory)

WispSuffix == <<"/", "wisp", "/">>
AdblockSuffix == <<"/", "adblock", "/">>

\* the else dropped: the application handler is called after the tunnel handler
RequestDispatchNoElse(req) ==
    IF shouldRoute(req) THEN <<"bareServer.routeRequest", "handler">>
    ELSE <<"handler">>

\* the if / else of the "request" listener: the calls it makes, in order
RequestDispatch(req) ==
    IF shouldRoute(req) THEN <<"bareServer.routeRequest">> ELSE <<"handler">>

\* the suffix test placed before the prefix test
UpgradeDispatchSuffixFirst(req) ==
    IF UrlEndsWith(req.url, WispSuffix) \/ UrlEndsWith(req.url, AdblockSuffix)
    THEN <<"wisp.routeRequest">>
    ELSE IF shouldRoute(req) THEN <<"bareServer.routeUpgrade">>
    ELSE <<"socket.destroy">>

\* the final else handing the upgrade to the application handler
UpgradeDispatchFallThrough(req) ==
    IF shouldRoute(req) THEN <<"bareServer.routeUpgrade">>
    ELSE IF UrlEndsWith(req.url, WispSuffix) \/ UrlEndsWith(req.url, AdblockSuffix)
         THEN <<"wisp.routeRequest">>
    ELSE <<"handler">>

\* the if / else if / else of the "upgrade" listener: the calls it makes
UpgradeDispatch(req) ==
    IF shouldRoute(req) THEN <<"bareServer.routeUpgrade">>
    ELSE IF UrlEndsWith(req.url, WispSuffix) \/ UrlEndsWith(req.url, AdblockSuffix)
         THEN <<"wisp.routeRequest">>
    ELSE <<"socket.destroy">>

\* the RouteClass a call stands for
RouteClass(call) ==
    CASE call \in {"bareServer.routeRequest", "bareServer.routeUpgrade"} -> "TunnelProtocol"
      [] call = "wisp.routeRequest" -> "TunnelWebSocket"
      [] call = "handler" -> "Application"
      [] OTHER -> "Unmatched"

\* the downstream handlers (socket.destroy is the dispatcher's own doing)
Handlers ==
    {"bareServer.routeRequest", "bareServer.routeUpgrade", "wisp.routeRequest", "handler"}

(***************************************************************************)
(* Connection Admission Controller: admit(clientIP) on one AdmissionRecord *)
(***************************************************************************)
\* the window and block durations passed in each other's place
connectionLimiterSwapped ==
    [maxConnectionsPerIP |-> BareMaxConnectionsPerIP,
     windowDuration |-> BareBlockDuration,
     blockDuration |-> BareWindowDuration]

\* the limiter configured to block for a window longer than the environment
\* asks for
connectionLimiterLongBlock ==
    [maxConnectionsPerIP |-> BareMaxConnectionsPerIP,
     windowDuration |-> BareWindowDuration,
     blockDuration |-> BareBlockDuration + BareWindowDuration]

\* the limiter configured with one connection more than the environment
\* asks for
connectionLimiterOneMore ==
    [maxConnectionsPerIP |-> BareMaxConnectionsPerIP + 1,
     windowDuration |-> BareWindowDuration,
     blockDuration |-> BareBlockDuration]

\* the connectionLimiter options createBareServer is given
connectionLimiter ==
    [maxConnectionsPerIP |-> BareMaxConnectionsPerIP,
     windowDuration |-> BareWindowDuration,
     blockDuration |-> BareBlockDuration]

NoRecord == [count |-> -1, windowStart |-> -1, blockedUntil |-> -1]
NoBlock == -1

\* the record is blocked at time t
Blocked(r, t) == r.blockedUntil # NoBlock /\ r.blockedUntil > t

\* admit counting the attempts made while the IP is blocked
admitCountingBlocked(r0, t) ==
    LET r == IF r0 = NoRecord
             THEN [count |-> 0, windowStart |-> t, blockedUntil |-> NoBlock]
             ELSE r0
        c == [r EXCEPT !.count = @ + 1]
    IN  IF Blocked(r, t)
        THEN [rec |-> c, allow |-> FALSE, retryAfter |-> r.blockedUntil - t]
        ELSE IF c.count > connectionLimiter.maxConnectionsPerIP
        THEN [rec |-> [c EXCEPT !.blockedUntil = t + connectionLimiter.blockDuration],
              allow |-> FALSE, retryAfter |-> connectionLimiter.blockDuration]
        ELSE [rec |-> c, allow |-> TRUE, retryAfter |-> 0]

\* admit that never opens a new window: the count of the window that has
\* run out is carried on
admitNoReset(r0, t) ==
    LET r == IF r0 = NoRecord
             THEN [count |-> 0, windowStart |-> t, blockedUntil |-> NoBlock]
             ELSE r0
        c == [r EXCEPT !.count = @ + 1]
    IN  IF Blocked(r, t)
        THEN [rec |-> r, allow |-> FALSE, retryAfter |-> r.blockedUntil - t]
        ELSE IF c.count > connectionLimiter.maxConnectionsPerIP
        THEN [rec |-> [c EXCEPT !.blockedUntil = t + connectionLimiter.blockDuration],
              allow |-> FALSE, retryAfter |-> connectionLimiter.blockDuration]
        ELSE [rec |-> c, allow |-> TRUE, retryAfter |-> 0]

\* admit: the record after the call and the decision
admit(r0, t) ==
    LET r == IF r0 = NoRecord
             THEN [count |-> 0, windowStart |-> t, blockedUntil |-> NoBlock]
             ELSE r0
    IN  IF Blocked(r, t)
        THEN [rec |-> r, allow |-> FALSE, retryAfter |-> r.blockedUntil - t]
        ELSE LET w == IF t - r.windowStart >= connectionLimiter.windowDuration
                      THEN [r EXCEPT !.count = 0, !.windowStart = t]
                      ELSE r
                 c == [w EXCEPT !.count = @ + 1]
             IN  IF c.count > connectionLimiter.maxConnectionsPerIP
                 THEN [rec |-> [c EXCEPT !.blockedUntil =
                                              t + connectionLimiter.blockDuration],
                       allow |-> FALSE,
                       retryAfter |-> connectionLimiter.blockDuration]
                 ELSE [rec |-> c, allow |-> TRUE, retryAfter |-> 0]

(***************************************************************************)
(* Inputs.                                                                  *)
(***************************************************************************)
IPs == {"1.2.3.4", "5.6.7.8"}

Urls ==
    { <<"/", "bare", "/", "app.js">>,
      <<"/", "bare", "/", "wisp", "/">>,
      <<"/", "wisp", "/">>,
      <<"/", "x", "/", "adblock", "/">>,
      <<"/", "wisp", "/", "app.js">> }

\* req.headers as the HTTP parser hands them over
HeaderInputs ==
    { [xtest |-> Str(<<97>>)],
      [xtest |-> Arr(<<(<<97, SOH>>), <<HTAB, 98, 160>>>>),
       cookie |-> Str(<<97, CR, LF, 98>>), host |-> Undef] }

\* what a downstream handler does with one call: it returns ("ok"), returns
\* a promise that later rejects ("reject"), or throws; sent / ended say
\* whether it had sent the response headers and ended the response (for an
\* upgrade: written to the socket and destroyed it) by then
HandlerResults ==
    { [out |-> "ok", sent |-> FALSE, ended |-> FALSE],
      [out |-> "reject", sent |-> FALSE, ended |-> FALSE],
      [out |-> "throw", sent |-> FALSE, ended |-> FALSE],
      [out |-> "throw", sent |-> TRUE, ended |-> FALSE],
      [out |-> "throw", sent |-> TRUE, ended |-> TRUE] }

\* longest header value the sanitizers are given
MaxValueLen == 2

\* characters header values are made of: one or two of every class the
\* sanitizers tell apart, the last one above 0xFF
HeaderChars == {SOH, HTAB, LF, CR, SP, 97, DEL, 160, 233, 20013}

\* the strings of at most n characters taken from cs
Strings(cs, n) == UNION { [1 .. k -> cs] : k \in 0 .. n }

\* header values the HTTP parser hands to the server: strings and arrays of
\* strings of characters up to 0xFF, or undefined
ParserValues ==
    LET cs == { c \in HeaderChars : c <= 255 }
    IN  { Str(s) : s \in Strings(cs, MaxValueLen) }
        \cup { Arr(<<s, t>>) : s \in Strings(cs, 1), t \in Strings(cs, 1) }
        \cup { Undef }

\* req.headers objects
ParserHeaders ==
    { [xtest |-> v] : v \in ParserValues }
    \cup { [xtest |-> v, host |-> Undef] : v \in ParserValues }

\* header values the callers of a transport pass: any string, arrays, and
\* values that are neither
TransportValues ==
    { Str(s) : s \in Strings(HeaderChars, MaxValueLen) }
    \cup { Arr(<<s, t>>) : s \in Strings(HeaderChars, 1), t \in Strings(HeaderChars, 1) }
    \cup { NonStr(s) : s \in Strings(HeaderChars, 1) }
    \cup { Undef }

\* header names: accept, Accept, x, names that sanitize to nothing or to
\* white space, and a name that sanitizes to accept
TransportNames ==
    { <<97, 99, 99, 101, 112, 116>>, <<65, 99, 99, 101, 112, 116>>, <<120>>,
      <<SOH>>, <<SP, CR>>, <<SOH, 97, 99, 99, 101, 112, 116>> }

\* a second entry of the headers object, next to the one that varies
OtherEntry == [name |-> <<97, 99, 99, 101, 112, 116>>, value |-> Str(<<97>>)]

\* headers objects passed to request and connect
TransportHeaders ==
    LET es == { [name |-> n, value |-> v] : n \in TransportNames, v \in TransportValues }
    IN  { Obj(<<e>>) : e \in es }
        \cup { Obj(<<e, OtherEntry>>) : e \in { x \in es : x.name # OtherEntry.name } }
        \cup { Obj(<<OtherEntry, e>>) : e \in { x \in es : x.name # OtherEntry.name } }
        \cup { Undef }

\* no sanitizer call is being looked at
NoCall == [st |-> "None", fn |-> "none", arg |-> <<>>, out |-> <<>>, again |-> <<>>]

\* url, protocols and the four callbacks of a connect call; none outside connect
NoArgs == [url |-> "none", protocols |-> <<>>, onopen |-> "none",
           onmessage |-> "none", onclose |-> "none", onerror |-> "none"]

\* what callers pass to connect next to the headers
ConnectArgs ==
    { [url |-> u, protocols |-> p, onopen |-> "onopen", onmessage |-> "onmessage",
       onclose |-> "onclose", onerror |-> "onerror"] :
         u \in {"wss://a.example/", "wss://b.example/chat"},
         p \in {<<>>, <<"soap", "wamp">>} }

\* nothing was thrown; nothing was returned
NoError == [message |-> <<>>, by |-> 0, thrown |-> FALSE]
NoResult == [by |-> 0, returned |-> FALSE]

\* the guard after its constructor: this.ready = false, no operation under
\* way, the inner transport constructed and not initialised
NoRequest == [st |-> "Idle", op |-> "none", headers |-> Undef, args |-> NoArgs,
              aborted |-> FALSE, calls |-> <<>>, handed |-> <<>>, caught |-> <<>>,
              error |-> NoError, result |-> NoResult,
              ready |-> FALSE, innerReady |-> FALSE]

\* what the application handler can do with a request besides: no route of
\* the application matches it, and the not-found handler answers
NoRouteMatches == [out |-> "notFound", sent |-> TRUE, ended |-> TRUE]

\* the outcomes of a call: only the application handler has routes
ResultsOf(call) ==
    IF call = "handler" THEN HandlerResults \cup {NoRouteMatches} ELSE HandlerResults

\* no headers object has been made and no sanitizing call
NoObjects == [objs |-> <<>>, calls |-> <<>>]

\* the environment has not been read
NoConfig == [st |-> "Unread"]

\* Settings.#instance is an empty Set, nothing has been constructed and
\* getInstance has not been called
NoSettings == [instance |-> <<>>, made |-> 0, calls |-> <<>>]

VARIABLES
    variant,    \* which server entry point runs
    proc,       \* the process: [state, exitCode, cause]
    cur,        \* the event whose callback is running or has just finished
    served,     \* events received so far
    pendingRej, \* a promise nobody handles has been rejected and not yet reported
    now,        \* the clock, in seconds
    table,      \* the admission table: IP -> AdmissionRecord
    admLog,     \* per IP, the admit calls made: time, decision, record before/after
    san,        \* the sanitizer call being looked at: function, argument, results
    guard,      \* the SafeEpoxyTransport and the operation of it that is under way
    twin,       \* the SafeLibcurlTransport given the same calls and the same delegate
    heap,       \* the headers objects that exist, and the sanitizing calls made on them
    config,     \* the environment the server was started in and what it read from it
    settings    \* Settings: the instance, the constructions and the getInstance calls

vars == <<variant, proc, cur, served, pendingRej, now, table, admLog, san, guard, twin,
          heap, config, settings>>

NoRes == [headersSent |-> FALSE, statusCode |-> 200, ended |-> FALSE,
          endedBy |-> "none", cors |-> FALSE, retryAfter |-> -1,
          location |-> "none"]
NoSock == [destroyed |-> FALSE, destroyedBy |-> "none", wrote |-> <<>>]

IdleEvent ==
    [st |-> "Idle", kind |-> "none", method |-> "none", url |-> NoUrl,
     upgrade |-> "none", ip |-> "none", code |-> "none",
     raw |-> <<>>, headers |-> <<>>, calls |-> <<>>, cls |-> "none",
     invoked |-> <<>>, seen |-> <<>>, result |-> "none", caught |-> FALSE,
     res |-> NoRes, sock |-> NoSock, log |-> "none", path |-> <<>>]

\* the events the server can be given
Events ==
    { [IdleEvent EXCEPT !.kind = "request", !.method = m, !.url = u, !.ip = i,
                        !.raw = h, !.headers = h] :
        m \in {"GET", "OPTIONS"}, u \in Urls, i \in IPs, h \in HeaderInputs }
    \cup
    { [IdleEvent EXCEPT !.kind = "upgrade", !.method = "GET", !.url = u, !.ip = i,
                        !.upgrade = p, !.raw = h, !.headers = h] :
        u \in Urls, i \in IPs, h \in HeaderInputs, p \in {"websocket", "h2c"} }
    \cup
    { [IdleEvent EXCEPT !.kind = "error", !.code = c] :
        c \in {"ECONNRESET", "EPIPE", "EADDRINUSE"} }
    \cup
    { [[IdleEvent EXCEPT !.kind = "clientError", !.code = c]
            EXCEPT !.sock.destroyed = d] :
        c \in {"ECONNRESET", "HPE_HEADER_OVERFLOW", "EOTHER"}, d \in BOOLEAN }

Init ==
    /\ variant \in {"index", "part_000"}
    /\ proc = [state |-> "starting", exitCode |-> 0, cause |-> "none"]
    /\ cur = IdleEvent
    /\ served = 0
    /\ pendingRej = FALSE
    /\ now = 0
    /\ table = [i \in IPs |-> NoRecord]
    /\ admLog = [i \in IPs |-> <<>>]
    /\ san = NoCall
    /\ guard = NoRequest
    /\ twin = NoRequest
    /\ heap = NoObjects
    /\ config = NoConfig
    /\ settings = NoSettings

\* the callback position moves to s
Goto(e, s) == [e EXCEPT !.st = s, !.path = Append(@, s)]

\* no callback is running
Quiet == cur.st \in {"Idle", "Terminal"}

(***************************************************************************)
(* Start-up.                                                                *)
(***************************************************************************)
\* app.listen(...).then(...): the listener is bound
ListenOk ==
    /\ proc.state = "starting"
    /\ proc' = [proc EXCEPT !.state = "listening"]
    /\ UNCHANGED <<heap, config, settings, san, guard, twin, variant, cur, served, pendingRej, now, table, admLog>>

\* app.listen(...).catch(...): process.exit(1)
ListenFail ==
    /\ proc.state = "starting"
    /\ proc' = [state |-> "exited", exitCode |-> 1, cause |-> "listen"]
    /\ UNCHANGED <<heap, config, settings, san, guard, twin, variant, cur, served, pendingRej, now, table, admLog>>

\* the server emits an event and its listener starts
Receive ==
    /\ proc.state = "listening"
    /\ Quiet
    /\ served < MaxEvents
    /\ \E e \in Events : cur' = Goto(e, "Received")
    /\ served' = served + 1
    /\ UNCHANGED <<heap, config, settings, san, guard, twin, variant, proc, pendingRej, now, table, admLog>>

(***************************************************************************)
(* The "request" and "upgrade" listeners, statement by statement.           *)
(***************************************************************************)
IsConn(e) == e.kind \in {"request", "upgrade"}

\* src/server/index.ts: sanitizeRequestHeaders(req), first statement of both
\* listeners
Sanitize ==
    /\ variant = "index"
    /\ IsConn(cur) /\ cur.st = "Received"
    /\ cur' = Goto([cur EXCEPT !.headers = sanitizeRequestHeaders(cur.headers)],
                   "Sanitized")
    /\ UNCHANGED <<heap, config, settings, san, guard, twin, variant, proc, served, pendingRej, now, table, admLog>>

\* the request listener of part_000 without its OPTIONS branch: the CORS
\* headers are set and every method goes on to routing
CorsPreflightRouted ==
    /\ variant = "part_000"
    /\ cur.kind = "request" /\ cur.st = "Received"
    /\ cur' = Goto([cur EXCEPT !.res.cors = TRUE], "CorsSet")
    /\ UNCHANGED <<heap, config, settings, san, guard, twin, variant, proc, served,
                   pendingRej, now, table, admLog>>

\* src/unnamed/part_000: the CORS headers and the preflight answer, first
\* statements of the "request" listener
CorsPreflight ==
    /\ variant = "part_000"
    /\ cur.kind = "request" /\ cur.st = "Received"
    /\ IF cur.method = "OPTIONS"
       THEN cur' = Goto([cur EXCEPT !.res.cors = TRUE, !.res.statusCode = 204,
                                    !.res.headersSent = TRUE, !.res.ended = TRUE,
                                    !.res.endedBy = "dispatcher"],
                        "Answered")
       ELSE cur' = Goto([cur EXCEPT !.res.cors = TRUE], "CorsSet")
    /\ UNCHANGED <<heap, config, settings, san, guard, twin, variant, proc, served, pendingRej, now, table, admLog>>

\* the routing if-statement placed before the call of the sanitizer
AtRoutingUnsanitized(e) ==
    \/ variant = "index" /\ e.st = "Received"
    \/ variant = "part_000" /\ e.kind = "request" /\ e.st = "CorsSet"
    \/ variant = "part_000" /\ e.kind = "upgrade" /\ e.st = "Received"

\* where the routing if-statement is reached from
AtRouting(e) ==
    \/ variant = "index" /\ e.st = "Sanitized"
    \/ variant = "part_000" /\ e.kind = "request" /\ e.st = "CorsSet"
    \/ variant = "part_000" /\ e.kind = "upgrade" /\ e.st = "Received"

\* the conditions of the routing if-statement are evaluated
Classify ==
    /\ IsConn(cur) /\ AtRouting(cur)
    /\ LET calls == IF cur.kind = "request" THEN RequestDispatch(cur)
                    ELSE UpgradeDispatch(cur)
       IN  cur' = Goto([cur EXCEPT !.calls = calls, !.cls = RouteClass(calls[1])],
                       "Classified")
    /\ UNCHANGED <<heap, config, settings, san, guard, twin, variant, proc, served, pendingRej, now, table, admLog>>

\* a not-found handler that answers with the status 404 itself
notFoundHandlerRaw(res) ==
    [res EXCEPT !.headersSent = TRUE, !.statusCode = 404, !.ended = TRUE,
                !.endedBy = "notFoundHandler"]

\* app.setNotFoundHandler((req, res) => { res.redirect("/404"); })
notFoundHandler(res) ==
    [res EXCEPT !.headersSent = TRUE, !.statusCode = 302, !.location = "/404",
                !.ended = TRUE, !.endedBy = "notFoundHandler"]

\* the effect of a downstream handler's call on the response / the socket
AfterHandler(e, call, r) ==
    LET e1 == [e EXCEPT !.result = r.out]
    IN  IF r.out = "notFound"
        THEN [e1 EXCEPT !.res = notFoundHandler(e.res)]
        ELSE IF e.kind = "request"
        THEN [e1 EXCEPT !.res.headersSent = @ \/ r.sent,
                        !.res.ended = @ \/ r.ended,
                        !.res.endedBy = IF r.ended THEN call ELSE @]
        ELSE [e1 EXCEPT !.sock.wrote = IF r.sent THEN Append(@, call) ELSE @,
                        !.sock.destroyed = @ \/ r.ended,
                        !.sock.destroyedBy = IF r.ended THEN call ELSE @]

\* a rejection answered with the window duration as Retry-After
RateLimitedWindow(e, call, retryAfter) ==
    IF e.kind = "request"
    THEN [e EXCEPT !.res.statusCode = 429,
                   !.res.retryAfter = connectionLimiter.windowDuration,
                   !.res.headersSent = TRUE, !.res.ended = TRUE,
                   !.res.endedBy = call, !.result = "ok"]
    ELSE [e EXCEPT !.sock.wrote = Append(@, call), !.sock.destroyed = TRUE,
                   !.sock.destroyedBy = call, !.result = "ok"]

\* the tunnel-protocol handler turns a connection away: rate-limit status and
\* Retry-After
RateLimited(e, call, retryAfter) ==
    IF e.kind = "request"
    THEN [e EXCEPT !.res.statusCode = 429, !.res.retryAfter = retryAfter,
                   !.res.headersSent = TRUE, !.res.ended = TRUE,
                   !.res.endedBy = call, !.result = "ok"]
    ELSE [e EXCEPT !.sock.wrote = Append(@, call), !.sock.destroyed = TRUE,
                   !.sock.destroyedBy = call, !.result = "ok"]

\* one entry of the admission log
LogEntry(ip, d) ==
    [t |-> now, allow |-> d.allow, retryAfter |-> d.retryAfter,
     before |-> table[ip], after |-> d.rec]

\* the branch of the routing if-statement that was chosen is executed: one
\* call of a downstream handler, or socket.destroy()
Invoke ==
    /\ IsConn(cur)
    /\ cur.calls # <<>>
    /\ \/ cur.st = "Classified"
       \/ cur.st \in {"Forwarded", "Rejected", "Closed"} /\ cur.result # "throw"
    /\ LET call == Head(cur.calls)
           e == [cur EXCEPT !.calls = Tail(@)]
       IN  IF call = "socket.destroy"
           THEN /\ cur' = Goto([e EXCEPT !.sock.destroyed = TRUE,
                                         !.sock.destroyedBy =
                                            IF cur.sock.destroyed THEN @ ELSE "dispatcher"],
                               "Closed")
                /\ UNCHANGED <<pendingRej, table, admLog>>
           ELSE LET f == [e EXCEPT !.invoked = Append(@, call),
                                   !.seen = Append(@, cur.headers)]
                IN  IF RouteClass(call) = "TunnelProtocol"
                    THEN LET d == admit(table[cur.ip], now)
                         IN  /\ table' = [table EXCEPT ![cur.ip] = d.rec]
                             /\ admLog' = [admLog EXCEPT
                                            ![cur.ip] = Append(@, LogEntry(cur.ip, d))]
                             /\ cur' = IF d.allow THEN Goto(f, "Admitted")
                                       ELSE Goto(RateLimited(f, call, d.retryAfter),
                                                 "Rejected")
                             /\ UNCHANGED pendingRej
                    ELSE \E r \in ResultsOf(call) :
                             /\ cur' = Goto(AfterHandler(f, call, r), "Forwarded")
                             /\ pendingRej' = (pendingRej \/ r.out = "reject")
                             /\ UNCHANGED <<table, admLog>>
    /\ UNCHANGED <<heap, config, settings, san, guard, twin, variant, proc, served, now>>

\* an admitted connection reaches the tunnel-protocol handler's routing logic
Route ==
    /\ IsConn(cur) /\ cur.st = "Admitted"
    /\ \E r \in HandlerResults :
          /\ cur' = Goto(AfterHandler(cur, cur.invoked[Len(cur.invoked)], r), "Forwarded")
          /\ pendingRej' = (pendingRej \/ r.out = "reject")
    /\ UNCHANGED <<heap, config, settings, san, guard, twin, variant, proc, served, now, table, admLog>>

\* catch block of the "request" listener
CatchRequest(e) ==
    IF ~e.res.headersSent
    THEN [e EXCEPT !.caught = TRUE, !.log = "error",
                   !.res.statusCode = 500, !.res.headersSent = TRUE,
                   !.res.ended = TRUE, !.res.endedBy = "dispatcher"]
    ELSE [e EXCEPT !.caught = TRUE, !.log = "error"]

\* catch block of the "upgrade" listener
CatchUpgrade(e) ==
    [e EXCEPT !.caught = TRUE, !.log = "error",
              !.sock.destroyed = TRUE,
              !.sock.destroyedBy = IF e.sock.destroyed THEN @ ELSE "dispatcher"]

\* the listener returns, through its catch block when the handler threw
Finish ==
    /\ IsConn(cur)
    /\ cur.st \in {"Forwarded", "Rejected", "Closed", "Answered"}
    /\ cur.result = "throw" \/ cur.calls = <<>>
    /\ cur' = Goto(IF cur.result # "throw" THEN cur
                   ELSE IF cur.kind = "request" THEN CatchRequest(cur)
                   ELSE CatchUpgrade(cur),
                   "Terminal")
    /\ UNCHANGED <<heap, config, settings, san, guard, twin, variant, proc, served, pendingRej, now, table, admLog>>

(***************************************************************************)
(* The "error" and "clientError" listeners.                                 *)
(***************************************************************************)
\* what the "error" listener logs
ErrorLog(v, code) ==
    IF v = "part_000" /\ code \in {"ECONNRESET", "EPIPE"} THEN "none" ELSE "error"

\* what the "clientError" listener logs
ClientErrorLog(v, code) ==
    IF v = "index"
    THEN (IF code \in {"ECONNRESET", "EPIPE"} THEN "none" ELSE "error")
    ELSE (IF code \in {"HPE_HEADER_OVERFLOW", "HPE_INVALID_HEADER_TOKEN"}
          THEN "warn" ELSE "error")

\* server.on("error", ...)
OnError ==
    /\ cur.kind = "error" /\ cur.st = "Received"
    /\ cur' = Goto([cur EXCEPT !.log = ErrorLog(variant, cur.code)], "Terminal")
    /\ UNCHANGED <<heap, config, settings, san, guard, twin, variant, proc, served, pendingRej, now, table, admLog>>

\* server.on("clientError", ...)
OnClientError ==
    /\ cur.kind = "clientError" /\ cur.st = "Received"
    /\ cur' = Goto([cur EXCEPT !.log = ClientErrorLog(variant, cur.code),
                               !.sock.wrote = IF cur.sock.destroyed THEN @
                                              ELSE Append(@, "400 Bad Request")],
                   "Terminal")
    /\ UNCHANGED <<heap, config, settings, san, guard, twin, variant, proc, served, pendingRej, now, table, admLog>>

(***************************************************************************)
(* The process.                                                             *)
(***************************************************************************)
\* a promise returned by a downstream handler rejects; the listener neither
\* awaits it nor attaches a catch, no 'unhandledRejection' listener is
\* installed, and Node 18 (Dockerfile) then ends the process with code 1
UnhandledRejection ==
    /\ proc.state = "listening"
    /\ Quiet
    /\ pendingRej
    /\ proc' = [state |-> "exited", exitCode |-> 1, cause |-> "unhandledRejection"]
    /\ pendingRej' = FALSE
    /\ UNCHANGED <<heap, config, settings, san, guard, twin, variant, cur, served, now, table, admLog>>

Next ==
    \/ ListenOk
    \/ ListenFail
    \/ Receive
    \/ Sanitize
    \/ CorsPreflight
    \/ Classify
    \/ Invoke
    \/ Route
    \/ Finish
    \/ OnError
    \/ OnClientError
    \/ UnhandledRejection

Spec == Init /\ [][Next]_vars

\* a callback that has started runs to its end; the process itself may wait
\* for events for ever
Step == Sanitize \/ CorsPreflight \/ Classify \/ Invoke \/ Route \/ Finish
            \/ OnError \/ OnClientError

FairSpec == Spec /\ WF_vars(Step)

(***************************************************************************)
(* The admission controller on its own: admit calls and the clock.  (The   *)
(* server specification Spec calls admit at a fixed time; how decisions     *)
(* change as time passes is explored here.)                                 *)
(***************************************************************************)
NCalls == Len(admLog["1.2.3.4"]) + Len(admLog["5.6.7.8"])

\* admit(ip) on a limiter that keeps one record for all the clients
AdmitOneRecord(ip) ==
    /\ NCalls < MaxCalls
    /\ LET d == admit(table[ip], now)
       IN  /\ table' = [i \in IPs |-> d.rec]
           /\ admLog' = [admLog EXCEPT ![ip] = Append(@, LogEntry(ip, d))]
    /\ UNCHANGED <<heap, config, settings, san, guard, twin, variant, proc, cur, served, pendingRej, now>>

\* admit(ip) whose read of the record and write of it are two steps: the
\* call works on the record as the call before it had read it
AdmitStaleRead(ip) ==
    /\ NCalls < MaxCalls
    /\ LET n == Len(admLog[ip])
           d == admit(IF n = 0 THEN table[ip] ELSE admLog[ip][n].before, now)
       IN  /\ table' = [table EXCEPT ![ip] = d.rec]
           /\ admLog' = [admLog EXCEPT ![ip] = Append(@, LogEntry(ip, d))]
    /\ UNCHANGED <<heap, config, settings, san, guard, twin, variant, proc, cur, served, pendingRej, now>>

\* admit(ip)
Admit(ip) ==
    /\ NCalls < MaxCalls
    /\ LET d == admit(table[ip], now)
       IN  /\ table' = [table EXCEPT ![ip] = d.rec]
           /\ admLog' = [admLog EXCEPT ![ip] = Append(@, LogEntry(ip, d))]
    /\ UNCHANGED <<heap, config, settings, san, guard, twin, variant, proc, cur, served, pendingRej, now>>

\* a second passes
Tick ==
    /\ now < MaxTime
    /\ now' = now + 1
    /\ UNCHANGED <<heap, config, settings, san, guard, twin, variant, proc, cur, served, pendingRej, table, admLog>>

AdmitNext ==
    \/ \E ip \in IPs : Admit(ip)
    \/ Tick

AdmitSpec == Init /\ [][AdmitNext]_vars

\* the admission controller while time keeps advancing
AdmitClockSpec == AdmitSpec /\ WF_vars(Tick)

(***************************************************************************)
(* Reclamation of stale AdmissionRecords.                                   *)
(***************************************************************************)
\* a record is stale after this many window durations without a call
StaleWindows == 2

\* the time of the last admit call of ip
LastActivity(ip) == admLog[ip][Len(admLog[ip])].t

\* the record of ip has seen no activity for StaleWindows window durations
Stale(ip) ==
    /\ table[ip] # NoRecord
    /\ now - LastActivity(ip) >= StaleWindows * connectionLimiter.windowDuration

\* reclamation that deletes a record an admit call has just used
ReclaimInUse(ip) ==
    /\ table[ip] # NoRecord
    /\ table' = [table EXCEPT ![ip] = NoRecord]
    /\ UNCHANGED <<heap, config, settings, san, guard, twin, variant, proc, cur, served, pendingRej, now, admLog>>

\* the stale record of ip is reclaimed, in one step of the owner of the
\* record
Reclaim(ip) ==
    /\ Stale(ip)
    /\ table' = [table EXCEPT ![ip] = NoRecord]
    /\ UNCHANGED <<heap, config, settings, san, guard, twin, variant, proc, cur, served, pendingRej, now, admLog>>

ReclaimNext ==
    \/ \E ip \in IPs : Admit(ip)
    \/ \E ip \in IPs : Reclaim(ip)
    \/ Tick

ReclaimSpec == Init /\ [][ReclaimNext]_vars

(***************************************************************************)
(* The sanitizers as functions: one call, and the call repeated on its own *)
(* result.                                                                  *)
(***************************************************************************)
\* the sanitizers of single values
ValueSanitizers ==
    {"index.sanitizeHeaderValue", "part_000.sanitizeHeaderValue",
     "transport.sanitizeHeaderValue", "transport.strict"}

\* the sanitizers of headers objects
HeaderSanitizers ==
    {"index.sanitizeRequestHeaders", "part_000.sanitizeHeaders",
     "transport.sanitizeHeaders", "transport.minimalHeaders"}

\* the arguments a sanitizer is called with
SanitizerInputs(fn) ==
    CASE fn \in {"index.sanitizeHeaderValue", "part_000.sanitizeHeaderValue"} ->
            { v \in ParserValues : v.k = "str" }
      [] fn = "transport.sanitizeHeaderValue" ->
            { v \in TransportValues : v.k # "arr" }
      [] fn = "transport.strict" ->
            { v \in TransportValues : v.k = "str" }
      [] fn \in {"index.sanitizeRequestHeaders", "part_000.sanitizeHeaders"} ->
            ParserHeaders
      [] OTHER -> TransportHeaders

\* what the sanitizer returns (for sanitizeRequestHeaders: what it leaves in
\* req.headers); transport.strict is the replace of the retry, and
\* transport.minimalHeaders the headers of the retry
Sanitized(fn, arg) ==
    CASE fn = "index.sanitizeHeaderValue" -> sanitizeHeaderValue(arg.v)
      [] fn = "part_000.sanitizeHeaderValue" -> sanitizeHeaderValueP(arg.v)
      [] fn = "transport.sanitizeHeaderValue" -> sanitizeHeaderValueT(arg)
      [] fn = "transport.strict" -> ReplaceStrict(arg.v)
      [] fn = "index.sanitizeRequestHeaders" -> sanitizeRequestHeaders(arg)
      [] fn = "part_000.sanitizeHeaders" -> sanitizeHeaders(arg)
      [] fn = "transport.sanitizeHeaders" -> sanitizeHeadersT(arg)
      [] OTHER -> minimalHeaders(sanitizeHeadersT(arg))

\* a sanitizer is called
SanitizeCall(fn) ==
    /\ san.st = "None"
    /\ \E arg \in SanitizerInputs(fn) :
          san' = [st |-> "Once", fn |-> fn, arg |-> arg,
                  out |-> Sanitized(fn, arg), again |-> <<>>]
    /\ UNCHANGED <<variant, proc, cur, served, pendingRej, now, table, admLog, guard, twin,
                   heap, config, settings>>

\* the sanitizer is called on what it returned
SanitizeAgain ==
    /\ san.st = "Once"
    /\ san' = [san EXCEPT !.st = "Twice",
                          !.again = Sanitized(san.fn,
                                        IF san.fn \in ValueSanitizers
                                        THEN Str(san.out) ELSE san.out)]
    /\ UNCHANGED <<variant, proc, cur, served, pendingRej, now, table, admLog, guard, twin,
                   heap, config, settings>>

\* the results are dropped
SanitizeDone ==
    /\ san.st \in {"Once", "Twice"}
    /\ san' = NoCall
    /\ UNCHANGED <<variant, proc, cur, served, pendingRej, now, table, admLog, guard, twin,
                   heap, config, settings>>

SanitizerNext ==
    \/ \E fn \in ValueSanitizers : SanitizeCall(fn)
    \/ \E fn \in HeaderSanitizers : SanitizeCall(fn)
    \/ SanitizeAgain
    \/ SanitizeDone

SanitizerSpec == Init /\ [][SanitizerNext]_vars

(***************************************************************************)
(* SafeEpoxyTransport and SafeLibcurlTransport.  Each wraps an inner        *)
(* transport (the delegate); guard is the epoxy wrapper, twin the libcurl   *)
(* wrapper, and both are given the same calls and the same delegate         *)
(* outcomes.  One operation is followed at a time: it starts from Idle,     *)
(* waits for the delegate, and ends Returned or Thrown.                     *)
(***************************************************************************)

\* header names and values of the requests handed to the guards
GuardNames ==
    { <<97, 99, 99, 101, 112, 116>>,                                   \* accept
      <<65, 99, 99, 101, 112, 116>>,                                   \* Accept
      <<85, 115, 101, 114, 45, 65, 103, 101, 110, 116>>,               \* User-Agent
      <<99, 111, 111, 107, 105, 101>>,                                 \* cookie
      <<97, 117, 116, 104, 111, 114, 105, 122, 97, 116, 105, 111, 110>>, \* authorization
      <<SP>> }
GuardValues ==
    { Str(<<97>>), Str(<<97, LF, 233>>), Str(<<NUL, 97, DEL, 20013>>),
      Arr(<<<<97, HTAB>>, <<233>>>>), NonStr(<<52>>) }
GuardHeaders ==
    LET es == { [name |-> n, value |-> v] : n \in GuardNames, v \in GuardValues }
    IN  { Obj(<<e>>) : e \in es }
        \cup { Obj(<<p[1], p[2]>>) :
                   p \in { q \in es \X es :
                              q[1].name # q[2].name /\ q[2].value = Str(<<97, LF, 233>>) } }
        \cup { Undef }

\* error.message of what the delegate throws, word by word; <<>> is an
\* error without a message
DelegateMessages ==
    { <<"InvalidHeaderValue">>,
      <<"request", "failed:", "InvalidHeaderValue", "(accept)">>,
      <<"NetworkError">>,
      <<"AbortError">>,
      <<>> }

\* error.message.includes(word)
Includes(message, word) == \E i \in 1 .. Len(message) : message[i] = word

\* the condition of the catch block in request
IsInvalidHeaderValue(message) ==
    message # <<>> /\ Includes(message, "InvalidHeaderValue")

\* sanitizeHeaders of the transport t
SanitizeHeadersOf(t, headers) ==
    IF t = "epoxy" THEN sanitizeHeadersT(headers) ELSE sanitizeHeadersL(headers)

\* minimalHeaders of the transport t
MinimalHeadersOf(t, sanitizedHeaders) ==
    IF t = "epoxy" THEN minimalHeaders(sanitizedHeaders)
    ELSE minimalHeadersL(sanitizedHeaders)

\* a call of the delegate: the operation, the headers and the other
\* arguments handed over, and whether the signal was aborted at that time
DelegateCall(op, headers, args, aborted) ==
    [op |-> op, headers |-> headers, args |-> args, aborted |-> aborted]

\* the error the delegate's call number by throws
DelegateError(message, by) == [message |-> message, by |-> by, thrown |-> TRUE]

\* the operation that is over is forgotten; ready stays
Idle(g) == [NoRequest EXCEPT !.ready = g.ready, !.innerReady = g.innerReady]

\* request(remote, method, body, headers, signal) up to its first await:
\* the sanitized headers are handed to the inner transport
request(t, g, headers, aborted) ==
    LET sanitizedHeaders == SanitizeHeadersOf(t, headers)
    IN  [Idle(g) EXCEPT !.st = "First", !.op = "request", !.headers = headers,
                        !.aborted = aborted,
                        !.calls = <<DelegateCall("request", sanitizedHeaders, NoArgs, aborted)>>,
                        !.handed = <<sanitizedHeaders>>]

\* the awaited inner request resolves: request returns that response
requestResolved(g) ==
    [g EXCEPT !.st = "Returned", !.result = [by |-> Len(g.calls), returned |-> TRUE]]

\* the catch block of request that retries after any error
requestRejectedAnyError(t, g, message) ==
    IF g.st = "First"
    THEN LET minimal == MinimalHeadersOf(t, g.handed[1])
         IN  [g EXCEPT !.st = "Second",
                       !.caught = Append(@, DelegateError(message, 1)),
                       !.calls = Append(@, DelegateCall("request", minimal, NoArgs, g.aborted)),
                       !.handed = Append(@, minimal)]
    ELSE [g EXCEPT !.st = "Thrown",
                   !.caught = Append(@, DelegateError(message, Len(g.calls))),
                   !.error = DelegateError(message, Len(g.calls))]

\* the awaited inner request rejects with an error of this message: the
\* catch block retries with minimalHeaders when the first attempt failed
\* with InvalidHeaderValue; any other error, and any error of the retry,
\* leaves request
requestRejected(t, g, message) ==
    IF g.st = "First" /\ IsInvalidHeaderValue(message)
    THEN LET minimal == MinimalHeadersOf(t, g.handed[1])
         IN  [g EXCEPT !.st = "Second",
                       !.caught = Append(@, DelegateError(message, 1)),
                       !.calls = Append(@, DelegateCall("request", minimal, NoArgs, g.aborted)),
                       !.handed = Append(@, minimal)]
    ELSE [g EXCEPT !.st = "Thrown",
                   !.caught = Append(@, DelegateError(message, Len(g.calls))),
                   !.error = DelegateError(message, Len(g.calls))]

\* connect that hands onerror over in the place of onclose
connectSwapped(t, g, headers, args) ==
    [Idle(g) EXCEPT !.st = "Connecting", !.op = "connect", !.headers = headers,
                    !.args = args,
                    !.calls = <<DelegateCall("connect", SanitizeHeadersOf(t, headers),
                                             [args EXCEPT !.onclose = args.onerror,
                                                          !.onerror = args.onclose],
                                             FALSE)>>]

\* connect(url, protocols, requestHeaders, onopen, onmessage, onclose,
\* onerror) up to the call of the inner connect
connect(t, g, headers, args) ==
    [Idle(g) EXCEPT !.st = "Connecting", !.op = "connect", !.headers = headers,
                    !.args = args,
                    !.calls = <<DelegateCall("connect", SanitizeHeadersOf(t, headers),
                                             args, FALSE)>>]

\* init() up to its await
init(g) ==
    [Idle(g) EXCEPT !.st = "Initialising", !.op = "init",
                    !.calls = <<DelegateCall("init", Undef, NoArgs, FALSE)>>]

\* the rest of init that sets ready without looking at the delegate
initResolvedTrue(g, innerReady) ==
    [g EXCEPT !.st = "Returned", !.innerReady = innerReady, !.ready = TRUE,
              !.result = [by |-> 1, returned |-> TRUE]]

\* the awaited inner init resolves, leaving the delegate's ready as given:
\* this.ready = this.innerTransport.ready
initResolved(g, innerReady) ==
    [g EXCEPT !.st = "Returned", !.innerReady = innerReady, !.ready = innerReady,
              !.result = [by |-> 1, returned |-> TRUE]]

\* meta() up to the call of the inner meta
meta(g) ==
    [Idle(g) EXCEPT !.st = "Meta", !.op = "meta",
                    !.calls = <<DelegateCall("meta", Undef, NoArgs, FALSE)>>]

\* the delegate's connect, init or meta returns: so does the guard
delegateReturned(g) ==
    [g EXCEPT !.st = "Returned", !.result = [by |-> 1, returned |-> TRUE]]

\* the delegate's connect, init or meta throws: the error leaves the guard
delegateThrew(g, message) ==
    [g EXCEPT !.st = "Thrown", !.error = DelegateError(message, 1)]

Others ==
    <<variant, proc, cur, served, pendingRej, now, table, admLog, san,
      heap, config, settings>>

\* a caller calls request; its signal may be aborted already
Request ==
    /\ guard.st = "Idle"
    /\ \E headers \in GuardHeaders, aborted \in BOOLEAN :
          /\ guard' = request("epoxy", guard, headers, aborted)
          /\ twin' = request("libcurl", twin, headers, aborted)
    /\ UNCHANGED Others

\* the caller aborts the signal while the request is with the delegate
Abort ==
    /\ guard.st \in {"First", "Second"}
    /\ ~guard.aborted
    /\ guard' = [guard EXCEPT !.aborted = TRUE]
    /\ twin' = [twin EXCEPT !.aborted = TRUE]
    /\ UNCHANGED Others

\* the inner transport's request resolves
Resolve ==
    /\ guard.st \in {"First", "Second"}
    /\ guard' = requestResolved(guard)
    /\ twin' = requestResolved(twin)
    /\ UNCHANGED Others

\* the inner transport's request rejects
Reject(message) ==
    /\ guard.st \in {"First", "Second"}
    /\ guard' = requestRejected("epoxy", guard, message)
    /\ twin' = requestRejected("libcurl", twin, message)
    /\ UNCHANGED Others

\* a caller calls connect
Connect ==
    /\ guard.st = "Idle"
    /\ \E headers \in GuardHeaders, args \in ConnectArgs :
          /\ guard' = connect("epoxy", guard, headers, args)
          /\ twin' = connect("libcurl", twin, headers, args)
    /\ UNCHANGED Others

\* a caller calls init
InitTransport ==
    /\ guard.st = "Idle"
    /\ guard' = init(guard)
    /\ twin' = init(twin)
    /\ UNCHANGED Others

\* the inner transport's init resolves
InitResolves ==
    /\ guard.st = "Initialising"
    /\ \E innerReady \in BOOLEAN :
          /\ guard' = initResolved(guard, innerReady)
          /\ twin' = initResolved(twin, innerReady)
    /\ UNCHANGED Others

\* a caller calls meta
Meta ==
    /\ guard.st = "Idle"
    /\ guard' = meta(guard)
    /\ twin' = meta(twin)
    /\ UNCHANGED Others

\* the inner transport's connect or meta returns
DelegateReturns ==
    /\ guard.st \in {"Connecting", "Meta"}
    /\ guard' = delegateReturned(guard)
    /\ twin' = delegateReturned(twin)
    /\ UNCHANGED Others

\* the inner transport's connect, init or meta throws
DelegateThrows(message) ==
    /\ guard.st \in {"Connecting", "Initialising", "Meta"}
    /\ guard' = delegateThrew(guard, message)
    /\ twin' = delegateThrew(twin, message)
    /\ UNCHANGED Others

\* the caller has its answer and goes on to the next operation
Settle ==
    /\ guard.st \in {"Returned", "Thrown"}
    /\ guard' = Idle(guard)
    /\ twin' = Idle(twin)
    /\ UNCHANGED Others

GuardNext ==
    \/ Request
    \/ Abort
    \/ Resolve
    \/ \E message \in DelegateMessages : Reject(message)
    \/ Connect
    \/ InitTransport
    \/ InitResolves
    \/ Meta
    \/ DelegateReturns
    \/ \E message \in DelegateMessages : DelegateThrows(message)
    \/ Settle

GuardSpec == Init /\ [][GuardNext]_vars

(***************************************************************************)
(* The headers objects themselves.  Objects live in heap.objs and are       *)
(* named by their index; a caller makes headers objects and calls           *)
(* sanitizeHeaders, request and connect of the transport that is loaded;    *)
(* heap.calls records, for each call, the object given, its content before  *)
(* the call and the content of what was handed on.                          *)
(***************************************************************************)
\* number of objects followed
MaxObjects == 4
\* number of calls of sanitizeHeaders, request and connect followed
MaxSanitizingCalls == 3

\* the headers objects callers make
PureHeaders ==
    { Undef,
      Obj(<<[name |-> <<97, 99, 99, 101, 112, 116>>, value |-> Str(<<97>>)]>>),
      Obj(<<[name |-> <<SP>>, value |-> Str(<<97>>)],
            [name |-> <<65, 99, 99, 101, 112, 116>>,
             value |-> Arr(<<<<233, LF>>, <<HTAB>>>>)]>>) }

\* sanitizeHeaders that stores the sanitized entries in headers itself
sanitizeHeadersAtInPlace(t, objs, r) ==
    IF objs[r] = Undef THEN [objs |-> objs, ref |-> r]
    ELSE [objs |-> [objs EXCEPT ![r] = SanitizeHeadersOf(t, objs[r])], ref |-> r]

\* sanitizeHeaders on the object r: headers that are no object are
\* returned as they are; otherwise const sanitized = {} is a new object,
\* filled by the loop and returned
sanitizeHeadersAt(t, objs, r) ==
    IF objs[r] = Undef THEN [objs |-> objs, ref |-> r]
    ELSE [objs |-> Append(objs, SanitizeHeadersOf(t, objs[r])), ref |-> Len(objs) + 1]

\* const minimalHeaders = {} of the retry, filled from sanitizedHeaders
minimalHeadersAt(t, objs, r) ==
    [objs |-> Append(objs, MinimalHeadersOf(t, objs[r])), ref |-> Len(objs) + 1]

\* a call as recorded: the function, the object given and its content at
\* the call, whether the delegate asked for the retry, and the objects
\* handed on with their contents (returned by sanitizeHeaders, handed to
\* the delegate by request and connect)
SanitizingCall(fn, r, before, retry, refs, out) ==
    [fn |-> fn, arg |-> r, before |-> before, retry |-> retry, refs |-> refs,
     out |-> out]

\* the transport module is loaded
Load ==
    /\ heap = NoObjects
    /\ \E t \in {"epoxy", "libcurl"} : heap' = [objs |-> <<>>, calls |-> <<>>, t |-> t]
    /\ UNCHANGED <<variant, proc, cur, served, pendingRej, now, table, admLog, san, guard,
                   twin, config, settings>>

\* a caller makes a headers object; the objects are made before the calls
MakeHeaders ==
    /\ heap # NoObjects
    /\ heap.calls = <<>>
    /\ Len(heap.objs) < MaxObjects
    /\ \E h \in PureHeaders : heap' = [heap EXCEPT !.objs = Append(@, h)]
    /\ UNCHANGED <<variant, proc, cur, served, pendingRej, now, table, admLog, san, guard,
                   twin, config, settings>>

\* a caller calls sanitizeHeaders(headers), or connect, which hands
\* sanitizeHeaders(requestHeaders) to the delegate
SanitizeHeadersCall ==
    /\ heap # NoObjects
    /\ Len(heap.objs) < MaxObjects /\ Len(heap.calls) < MaxSanitizingCalls
    /\ \E r \in 1 .. Len(heap.objs), fn \in {"sanitizeHeaders", "connect"} :
          LET s == sanitizeHeadersAt(heap.t, heap.objs, r)
          IN  heap' = [heap EXCEPT
                         !.objs = s.objs,
                         !.calls = Append(@, SanitizingCall(fn, r, heap.objs[r], FALSE,
                                                            <<s.ref>>, <<s.objs[s.ref]>>))]
    /\ UNCHANGED <<variant, proc, cur, served, pendingRej, now, table, admLog, san, guard,
                   twin, config, settings>>

\* a caller calls request(remote, method, body, headers, signal): the
\* sanitized headers are handed to the delegate and, when that attempt
\* fails with InvalidHeaderValue, minimalHeaders
RequestCall ==
    /\ heap # NoObjects
    /\ Len(heap.objs) + 1 < MaxObjects /\ Len(heap.calls) < MaxSanitizingCalls
    /\ \E r \in 1 .. Len(heap.objs), retry \in BOOLEAN :
          LET s == sanitizeHeadersAt(heap.t, heap.objs, r)
              m == minimalHeadersAt(heap.t, s.objs, s.ref)
          IN  heap' = [heap EXCEPT
                         !.objs = IF retry THEN m.objs ELSE s.objs,
                         !.calls = Append(@, SanitizingCall("request", r, heap.objs[r], retry,
                                        IF retry THEN <<s.ref, m.ref>> ELSE <<s.ref>>,
                                        IF retry THEN <<s.objs[s.ref], m.objs[m.ref]>>
                                        ELSE <<s.objs[s.ref]>>))]
    /\ UNCHANGED <<variant, proc, cur, served, pendingRej, now, table, admLog, san, guard,
                   twin, config, settings>>

PureNext ==
    \/ Load
    \/ MakeHeaders
    \/ SanitizeHeadersCall
    \/ RequestCall

PureSpec == Init /\ [][PureNext]_vars

(***************************************************************************)
(* The configuration read from the environment when the server starts:     *)
(* parseInt(process.env.X) || default.                                      *)
(***************************************************************************)
\* the defaults written in the source
DefaultMaxConnectionsPerIP == 1000
DefaultWindowDuration == 60
DefaultBlockDuration == 30
DefaultPort == 8080

\* numbers as parseInt returns them
NaN == [k |-> "NaN", v |-> 0]
Num(n) == [k |-> "num", v |-> n]

\* the value of a character as a digit; 99 for what is no digit of any radix
DigitValue(c) ==
    IF c >= 48 /\ c <= 57 THEN c - 48
    ELSE IF c >= 97 /\ c <= 122 THEN c - 87
    ELSE IF c >= 65 /\ c <= 90 THEN c - 55
    ELSE 99

RECURSIVE DigitsPrefix(_, _)
\* the longest prefix of s made of digits of the radix
DigitsPrefix(s, radix) ==
    IF s = <<>> \/ DigitValue(Head(s)) >= radix THEN <<>>
    ELSE <<Head(s)>> \o DigitsPrefix(Tail(s), radix)

RECURSIVE DigitsNumber(_, _, _)
\* the number the digits write in the radix
DigitsNumber(s, radix, acc) ==
    IF s = <<>> THEN acc
    ELSE DigitsNumber(Tail(s), radix, acc * radix + DigitValue(Head(s)))

\* parseInt(string) with no radix given: leading white space is skipped, a
\* sign is read, 0x or 0X selects radix 16, the longest prefix of digits is
\* the number, and without a digit the result is NaN
parseInt(string) ==
    LET trimmed == TrimStart(StringOf(string))
        negative == trimmed # <<>> /\ Head(trimmed) = 45
        unsigned == IF trimmed # <<>> /\ Head(trimmed) \in {43, 45}
                    THEN Tail(trimmed) ELSE trimmed
        hex == Len(unsigned) >= 2 /\ unsigned[1] = 48 /\ unsigned[2] \in {88, 120}
        radix == IF hex THEN 16 ELSE 10
        digits == DigitsPrefix(IF hex THEN Tail(Tail(unsigned)) ELSE unsigned, radix)
        number == DigitsNumber(digits, radix, 0)
    IN  IF digits = <<>> THEN NaN
        ELSE Num(IF negative THEN 0 - number ELSE number)

\* a fallback that takes the default for NaN only and keeps 0
OrNotANumber(x, d) == IF x.k = "NaN" THEN d ELSE x.v

\* x || d for a number x: NaN and 0 are falsy
Or(x, d) == IF x.k = "NaN" \/ x.v = 0 THEN d ELSE x.v

\* what the environment variables can hold: nothing, or a string
EnvValues ==
    { Undef,
      Str(<<>>),                      \* ""
      Str(<<48>>),                    \* "0"
      Str(<<45, 48>>),                \* "-0"
      Str(<<48, 48>>),                \* "00"
      Str(<<49, 50>>),                \* "12"
      Str(<<45, 53>>),                \* "-5"
      Str(<<97, 98, 99>>),            \* "abc"
      Str(<<49, 50, 112, 120>>),      \* "12px"
      Str(<<SP, 43, 55>>),            \* " +7"
      Str(<<48, 120, 49, 102>>),      \* "0x1f"
      Str(<<51, 46, 57>>) }           \* "3.9"

\* process.env: the four variables the server reads
Environments ==
    [ {"PORT", "BARE_MAX_CONNECTIONS_PER_IP", "BARE_WINDOW_DURATION", "BARE_BLOCK_DURATION"}
        -> EnvValues ]

\* the server starts in the environment env: the limiter options given to
\* createBareServer and the port given to app.listen
ReadEnvironment ==
    /\ config = NoConfig
    /\ \E env \in Environments :
          config' =
            [st |-> "Read", env |-> env,
             maxConnectionsPerIP |->
                 Or(parseInt(env["BARE_MAX_CONNECTIONS_PER_IP"]), DefaultMaxConnectionsPerIP),
             windowDuration |->
                 Or(parseInt(env["BARE_WINDOW_DURATION"]), DefaultWindowDuration),
             blockDuration |->
                 Or(parseInt(env["BARE_BLOCK_DURATION"]), DefaultBlockDuration),
             port |-> Or(parseInt(env["PORT"]), parseInt(Str(<<56, 48, 56, 48>>)).v)]
    /\ UNCHANGED <<variant, proc, cur, served, pendingRej, now, table, admLog, san, guard,
                   twin, heap, settings>>

ConfigNext == ReadEnvironment

ConfigSpec == Init /\ [][ConfigNext]_vars

-----------------------------------------------------------------------------
\* Settings: the static Set of instances, the constructor and getInstance
\* (src/utils/settings.ts).  An instance is named by the order of its
\* construction: 1 is the first-constructed one.  The Set is the sequence
\* of its members in insertion order, which is the order keys() iterates.

MaxInstances == 3

MaxGetInstanceCalls == 3

\* get().next().value of an empty Set: undefined
NoInstance == 0

\* get().next().value yielding the last member
getLast(set) ==
    IF set = <<>> THEN NoInstance ELSE set[Len(set)]

\* get().next().value: the first member the generator yields
get(set) ==
    IF set = <<>> THEN NoInstance ELSE Head(set)

\* new Settings(): the instance adds itself to the Set; a new member is the
\* last one in the Set's iteration order
Construct ==
    /\ settings.made < MaxInstances
    /\ settings' = [settings EXCEPT
                        !.made = @ + 1,
                        !.instance = Append(@, settings.made + 1)]
    /\ UNCHANGED <<variant, proc, cur, served, pendingRej, now, table, admLog,
                   san, guard, twin, heap, config>>

\* Settings.getInstance() up to its await: ready() resolves at once when the
\* Set is not empty (size !== 0) and starts the 50 ms interval otherwise
GetInstance ==
    /\ Len(settings.calls) < MaxGetInstanceCalls
    /\ settings' = [settings EXCEPT !.calls = Append(@,
                        IF Len(settings.instance) # 0
                        THEN [st |-> "Ready", interval |-> "none", value |-> NoInstance]
                        ELSE [st |-> "Polling", interval |-> "set", value |-> NoInstance])]
    /\ UNCHANGED <<variant, proc, cur, served, pendingRej, now, table, admLog,
                   san, guard, twin, heap, config>>

\* the interval callback of call c: clears the interval and resolves ready()
\* when the Set is not empty, does nothing otherwise
Poll(c) ==
    /\ c \in DOMAIN settings.calls
    /\ settings.calls[c].interval = "set"
    /\ settings' = IF Len(settings.instance) # 0
                   THEN [settings EXCEPT !.calls[c].st = "Ready",
                                         !.calls[c].interval = "cleared"]
                   ELSE settings
    /\ UNCHANGED <<variant, proc, cur, served, pendingRej, now, table, admLog,
                   san, guard, twin, heap, config>>

\* the continuation of call c after await ready(): the call resolves with
\* the first member of the Set
Resume(c) ==
    /\ c \in DOMAIN settings.calls
    /\ settings.calls[c].st = "Ready"
    /\ settings' = [settings EXCEPT !.calls[c].st = "Resolved",
                                    !.calls[c].value = get(settings.instance)]
    /\ UNCHANGED <<variant, proc, cur, served, pendingRej, now, table, admLog,
                   san, guard, twin, heap, config>>

SettingsNext ==
    \/ Construct
    \/ GetInstance
    \/ \E c \in 1..MaxGetInstanceCalls : Poll(c)
    \/ \E c \in 1..MaxGetInstanceCalls : Resume(c)

\* the event loop keeps running: an interval that is set keeps firing and a
\* continuation whose promise has resolved runs
SettingsSpec ==
    /\ Init /\ [][SettingsNext]_vars
    /\ \A c \in 1..MaxGetInstanceCalls : WF_vars(Poll(c)) /\ WF_vars(Resume(c))

(***************************************************************************)
(* Properties.                                                              *)
(***************************************************************************)
\* the event's callback has returned
Done == IsConn(cur) /\ cur.st = "Terminal"

\* the call that hands an event of this kind to the tunnel-protocol handler
TunnelCall(e) ==
    IF e.kind = "request" THEN "bareServer.routeRequest" ELSE "bareServer.routeUpgrade"

\* p is a suffix of s
HasSuffix(s, p) == \E i \in 0 .. Len(s) : s = SubSeq(s, 1, i) \o p

\* the path ends with a registered tunnel-websocket suffix
WebSocketPath(e) == HasSuffix(e.url, WispSuffix) \/ HasSuffix(e.url, AdblockSuffix)

InSeq(x, s) == \E i \in 1 .. Len(s) : s[i] = x

\* C1: for every request, upgrade, error and clientError event the
\* dispatcher calls at most one downstream handler, also when the handler it
\* called throws.
C1_AtMostOneHandler ==
    /\ Len(cur.invoked) <= 1
    /\ \A i \in 1 .. Len(cur.invoked) : cur.invoked[i] \in Handlers

\* C1 witness: a handler was called, threw, the catch block ran, and it is
\* still the only handler called.
C1_Witness ==
    /\ Done /\ cur.result = "throw" /\ cur.caught
    /\ Len(cur.invoked) = 1

InboundSanitized(h) ==
    IF variant = "index" THEN sanitizeRequestHeaders(h) ELSE sanitizeHeaders(h)

\* C5 as stated: from classification on, and for everything a downstream
\* handler or an error response sees, the request's headers are the
\* permissive-sanitized copy of the headers received; for every request and
\* upgrade, also those rejected or closed.
C5_Original ==
    (IsConn(cur) /\ cur.st \notin {"Idle", "Received", "Sanitized", "CorsSet"}) =>
        /\ cur.headers = InboundSanitized(cur.raw)
        /\ \A i \in 1 .. Len(cur.seen) : cur.seen[i] = InboundSanitized(cur.raw)

\* the ways through the per-connection state machine
ConnectionPaths ==
    { <<"Received", "Sanitized", "Classified", "Admitted", "Forwarded", "Terminal">>,
      <<"Received", "Sanitized", "Classified", "Forwarded", "Terminal">>,
      <<"Received", "Sanitized", "Classified", "Rejected", "Terminal">>,
      <<"Received", "Sanitized", "Classified", "Closed", "Terminal">> }

IsPrefix(s, t) == Len(s) <= Len(t) /\ s = SubSeq(t, 1, Len(s))

C7_Original ==
    (Done /\ cur.kind = "request" /\ cur.result = "throw") =>
        \/ cur.res.statusCode = 500 /\ cur.res.endedBy = "dispatcher"
        \/ /\ cur.res.statusCode # 500 /\ cur.res.endedBy # "dispatcher"
           /\ cur.res.ended \/ cur.sock.destroyed

\* C8 as stated: the process exits only when the listener fails to start,
\* and then with a non-zero code.
C8_Original ==
    proc.state = "exited" => (proc.cause = "listen" /\ proc.exitCode # 0)

\* the k-th admit call of ip falls into the window its first call opened
InFirstWindow(ip, k) ==
    admLog[ip][k].t - admLog[ip][1].t < BareWindowDuration

\* C9: starting from no record for an IP, the first maxConnectionsPerIP
\* admit calls inside one window are all allowed, and the next call in that
\* window is rejected with retryAfterSeconds = blockDurationSeconds.
C9_FirstWindow ==
    \A ip \in IPs : \A k \in 1 .. Len(admLog[ip]) :
        InFirstWindow(ip, k) =>
            /\ k <= BareMaxConnectionsPerIP => admLog[ip][k].allow
            /\ k = BareMaxConnectionsPerIP + 1 =>
                  /\ ~admLog[ip][k].allow
                  /\ admLog[ip][k].retryAfter = BareBlockDuration

\* C9 witness: an IP made maxConnectionsPerIP + 1 calls inside its first
\* window, the last of them after the clock had moved, and was turned away.
C9_Witness ==
    \E ip \in IPs :
        /\ Len(admLog[ip]) = BareMaxConnectionsPerIP + 1
        /\ InFirstWindow(ip, BareMaxConnectionsPerIP + 1)
        /\ admLog[ip][BareMaxConnectionsPerIP + 1].t > admLog[ip][1].t
        /\ ~admLog[ip][BareMaxConnectionsPerIP + 1].allow

\* C10: an admit call made while the IP's blockedUntil is set and in the
\* future is rejected with retryAfterSeconds = blockedUntil - now and leaves
\* the record (count, windowStart, blockedUntil) as it was.
C10_BlockedRejected ==
    \A ip \in IPs : \A k \in 1 .. Len(admLog[ip]) :
        LET c == admLog[ip][k]
        IN  (c.before # NoRecord /\ c.before.blockedUntil # NoBlock
                /\ c.before.blockedUntil > c.t) =>
                /\ ~c.allow
                /\ c.retryAfter = c.before.blockedUntil - c.t
                /\ c.after = c.before

\* C10 witness: a call made one second or more into a block was rejected
\* with the time that was left of it.
C10_Witness ==
    \E ip \in IPs : \E k \in 1 .. Len(admLog[ip]) :
        LET c == admLog[ip][k]
        IN  /\ c.before # NoRecord /\ c.before.blockedUntil > c.t
            /\ ~c.allow
            /\ c.retryAfter < BareBlockDuration

\* the record the call found was not blocked and its window had run out
WindowExpired(c) ==
    /\ c.before # NoRecord
    /\ ~(c.before.blockedUntil # NoBlock /\ c.before.blockedUntil > c.t)
    /\ c.t - c.before.windowStart >= BareWindowDuration

\* C11: an admit call for an IP that is not blocked, made when
\* now - windowStart >= windowDurationSeconds, starts a new window before the
\* increment (the record afterwards has count 1 and windowStart = now) and is
\* allowed, whatever count the previous window had reached.
C11_NewWindow ==
    \A ip \in IPs : \A k \in 1 .. Len(admLog[ip]) :
        LET c == admLog[ip][k]
        IN  WindowExpired(c) =>
                /\ c.allow /\ c.retryAfter = 0
                /\ c.after.count = 1
                /\ c.after.windowStart = c.t

\* C11 witness: the previous window had gone over the limit and its block
\* had run out; the call that opened the next window was allowed.
C11_Witness ==
    \E ip \in IPs : \E k \in 1 .. Len(admLog[ip]) :
        LET c == admLog[ip][k]
        IN  /\ WindowExpired(c)
            /\ c.before.count > BareMaxConnectionsPerIP
            /\ c.allow /\ c.after.count = 1

RECURSIVE AdmitAlone(_, _)
\* the decisions of the admit calls a client makes at the times ts, starting
\* from record r, when no other client calls
AdmitAlone(r, ts) ==
    IF ts = <<>> THEN <<>>
    ELSE LET d == admit(r, Head(ts))
         IN  <<d>> \o AdmitAlone(d.rec, Tail(ts))

\* the times of the admit calls ip has made
CallTimes(ip) == [k \in 1 .. Len(admLog[ip]) |-> admLog[ip][k].t]

\* C12: however the admit calls of two IPs are interleaved, the outcomes
\* (Allow / Reject and retryAfterSeconds) and the record of each IP are those
\* of the same calls made with the other IP absent: admit(ip) changes only
\* the AdmissionRecord of ip.
C12_Isolation ==
    \A ip \in IPs :
        LET alone == AdmitAlone(NoRecord, CallTimes(ip))
            n == Len(admLog[ip])
        IN  /\ \A k \in 1 .. n :
                  /\ admLog[ip][k].allow = alone[k].allow
                  /\ admLog[ip][k].retryAfter = alone[k].retryAfter
                  /\ admLog[ip][k].after = alone[k].rec
            /\ table[ip] = IF n = 0 THEN NoRecord ELSE alone[n].rec

\* C12 witness: one IP has run into its block while the other, whose calls
\* came in between, is allowed.
C12_Witness ==
    /\ Len(admLog["1.2.3.4"]) = BareMaxConnectionsPerIP + 1
    /\ ~admLog["1.2.3.4"][BareMaxConnectionsPerIP + 1].allow
    /\ Len(admLog["5.6.7.8"]) >= 1
    /\ admLog["5.6.7.8"][1].t < admLog["1.2.3.4"][BareMaxConnectionsPerIP + 1].t
    /\ admLog["5.6.7.8"][Len(admLog["5.6.7.8"])].allow
    /\ table["1.2.3.4"].blockedUntil > now

RECURSIVE Allows(_)
\* the number of Allow outcomes in a sequence of logged calls
Allows(log) ==
    IF log = <<>> THEN 0
    ELSE (IF Head(log).allow THEN 1 ELSE 0) + Allows(Tail(log))

Min(a, b) == IF a <= b THEN a ELSE b

\* the calls ip made at the instant of its first call: calls that are in
\* flight together in a fresh window
Burst(ip) ==
    SelectSeq(admLog[ip], LAMBDA c : c.t = admLog[ip][1].t)

AdmissionRejected == IsConn(cur) /\ InSeq("Rejected", cur.path)

\* the admit call made for the event being handled
CurrentAdmit == admLog[cur.ip][Len(admLog[cur.ip])]

\* C15: a tunnel-protocol request whose admission is rejected is answered
\* with the rate-limit status and a Retry-After equal to the
\* retryAfterSeconds of the rejection (the block duration for the call that
\* goes one over the limit in a window); it does not reach the handler's
\* routing logic, no other handler is called, and admit is not called for it
\* again.
C15_RejectedAnswered ==
    AdmissionRejected =>
        /\ cur.cls = "TunnelProtocol"
        /\ ~CurrentAdmit.allow
        /\ cur.kind = "request" =>
              /\ cur.res.statusCode = 429
              /\ cur.res.ended
              /\ cur.res.retryAfter = CurrentAdmit.retryAfter
              /\ Len(admLog[cur.ip]) = BareMaxConnectionsPerIP + 1 =>
                    cur.res.retryAfter = BareBlockDuration
        /\ ~InSeq("Admitted", cur.path) /\ ~InSeq("Forwarded", cur.path)
        /\ cur.invoked = <<TunnelCall(cur)>>
        /\ cur.calls = <<>>
        /\ Len(SelectSeq(cur.path, LAMBDA st : st = "Rejected")) = 1

\* C15 witness: the request that went one over the limit has been answered
\* with the rate-limit status and Retry-After = blockDurationSeconds.
C15_Witness ==
    /\ Done /\ cur.kind = "request" /\ AdmissionRejected
    /\ Len(admLog[cur.ip]) = BareMaxConnectionsPerIP + 1
    /\ cur.res.statusCode = 429
    /\ cur.res.retryAfter = BareBlockDuration

\* the characters the permissive profile strips
PermissiveStripped == (0 .. 8) \cup (10 .. 31) \cup {127}

\* s without the characters the permissive profile strips
KeepAllowed(s) == SelectSeq(s, LAMBDA c : c \notin PermissiveStripped)

\* c is HTAB, 0x20-0x7E or 0x80-0xFF
PermissiveAllowed(c) == c = 9 \/ (c >= 32 /\ c <= 126) \/ (c >= 128 /\ c <= 255)

\* c is 0x20-0x7E
StrictAllowed(c) == c >= 32 /\ c <= 126

\* the strings a header value holds
StringsOf(val) ==
    IF val.k = "arr" THEN { val.v[i] : i \in 1 .. Len(val.v) }
    ELSE IF val.k = "undef" THEN {}
    ELSE { val.v }

\* the strings that are values of a req.headers object
ValuesOfRequest(h) == UNION { StringsOf(h[n]) : n \in DOMAIN h }

\* the strings that are values of a headers object of the transports
ValuesOfObject(h) ==
    IF h = Undef THEN {}
    ELSE UNION { StringsOf(h.v[i].value) : i \in 1 .. Len(h.v) }

\* C16 as stated: permissive sanitization of a value (the server's
\* sanitizeHeaderValue, the transports' sanitizeHeaderValue) removes exactly
\* 0x00-0x08, 0x0A-0x1F and 0x7F and keeps every other character in its
\* order.
C16_Original ==
    (/\ san.st # "None"
     /\ san.fn \in {"index.sanitizeHeaderValue", "transport.sanitizeHeaderValue"}
     /\ san.arg.k = "str") =>
        san.out = KeepAllowed(san.arg.v)

\* C17 as stated: every value in the output of permissive sanitization of a
\* header map (sanitizeRequestHeaders of the server, sanitizeHeaders of the
\* transports) has only characters in {HTAB, 0x20-0x7E, 0x80-0xFF}.
C17_Original ==
    /\ (san.st # "None" /\ san.fn = "index.sanitizeRequestHeaders") =>
           \A s \in ValuesOfRequest(san.out) :
               \A i \in 1 .. Len(s) : PermissiveAllowed(s[i])
    /\ (san.st # "None" /\ san.fn = "transport.sanitizeHeaders") =>
           \A s \in ValuesOfObject(san.out) :
               \A i \in 1 .. Len(s) : PermissiveAllowed(s[i])

\* C18 as stated: every header value handed to the inner transport on the
\* retry, single-valued or multi-valued, has only characters in 0x20-0x7E.
C18_Original ==
    Len(guard.handed) = 2 =>
        \A s \in ValuesOfObject(guard.handed[2]) :
            \A i \in 1 .. Len(s) : StrictAllowed(s[i])

\* C19: sanitization is idempotent: each sanitizer (of the server, of
\* src/unnamed/part_000, of the transports; of one value and of a headers
\* object; the permissive pattern and the strict one of the retry) called on
\* its own result returns that result.
C19_Idempotent ==
    san.st = "Twice" => san.again = san.out

\* C19 witness: the server's sanitizeRequestHeaders changed the headers it
\* was given, and changed nothing when called on the result; so did the
\* transports' sanitizeHeaders.
C19_Witness ==
    /\ san.st = "Twice"
    /\ san.fn \in {"index.sanitizeRequestHeaders", "transport.sanitizeHeaders"}
    /\ san.out # san.arg
    /\ san.again = san.out

\* C20 as stated: a value that has only characters the profile allows is
\* returned unchanged by sanitization under that profile.
C20_Original ==
    /\ (/\ san.st # "None"
        /\ san.fn \in {"index.sanitizeHeaderValue", "part_000.sanitizeHeaderValue",
                        "transport.sanitizeHeaderValue"}
        /\ san.arg.k = "str"
        /\ \A i \in 1 .. Len(san.arg.v) : PermissiveAllowed(san.arg.v[i])) =>
           san.out = san.arg.v
    /\ (/\ san.st # "None" /\ san.fn = "transport.strict"
        /\ \A i \in 1 .. Len(san.arg.v) : StrictAllowed(san.arg.v[i])) =>
           san.out = san.arg.v

\* the name is empty or all white space
Blank(name) == \A i \in 1 .. Len(name) : IsJsWhiteSpace(name[i])

\* the permissive-sanitized form of a header value
PermissiveValue(val) ==
    IF val.k = "arr"
    THEN Arr([i \in 1 .. Len(val.v) |-> KeepAllowed(val.v[i])])
    ELSE Str(KeepAllowed(StringOf(val)))

\* the last entry of es whose name sanitizes to name
LastNamed(es, name) ==
    es[CHOOSE i \in 1 .. Len(es) :
          /\ KeepAllowed(es[i].name) = name
          /\ \A j \in (i + 1) .. Len(es) : KeepAllowed(es[j].name) # name]

SameShape(in, out, f) ==
    /\ out.k = "arr"
    /\ Len(out.v) = Len(in.v)
    /\ \A i \in 1 .. Len(in.v) : out.v[i] = f[i]

\* C22: a multi-valued header is sanitized element by element: the output
\* is an array of the same length and order, an element that sanitizes to
\* the empty string staying in its place as an empty string (sanitizeHeaders
\* of the transports; sanitizeRequestHeaders of the server, whose elements
\* are trimmed as well).
C22_ArrayShape ==
    /\ (san.st # "None" /\ san.fn = "transport.sanitizeHeaders"
            /\ san.arg # Undef) =>
          \A i \in 1 .. Len(san.out.v) :
              LET in == LastNamed(san.arg.v, san.out.v[i].name).value
              IN  in.k = "arr" =>
                      SameShape(in, san.out.v[i].value,
                                [j \in 1 .. Len(in.v) |-> KeepAllowed(in.v[j])])
    /\ (san.st # "None" /\ san.fn = "index.sanitizeRequestHeaders") =>
          \A n \in DOMAIN san.arg :
              san.arg[n].k = "arr" =>
                  SameShape(san.arg[n], san.out[n],
                            [j \in 1 .. Len(san.arg[n].v) |->
                                 Trim(KeepAllowed(san.arg[n].v[j]))])

\* C22 witness: the first of two elements sanitized to the empty string and
\* is still there, in front of the second.
C22_Witness ==
    /\ san.st # "None" /\ san.fn = "transport.sanitizeHeaders"
    /\ san.arg # Undef
    /\ Len(san.arg.v) = 1 /\ Len(san.out.v) = 1
    /\ san.arg.v[1].value = Arr(<< <<SOH>>, <<97>> >>)
    /\ san.out.v[1].value = Arr(<< <<>>, <<97>> >>)

\* the names and the values of the headers object have none of the
\* characters permissive sanitization removes
PermissiveSanitized(h) ==
    h # Undef =>
        \A i \in 1 .. Len(h.v) :
            /\ h.v[i].name = KeepAllowed(h.v[i].name)
            /\ \A s \in StringsOf(h.v[i].value) : s = KeepAllowed(s)

\* every value of the headers object has only characters in 0x20-0x7E
StrictSanitized(h) ==
    \A s \in ValuesOfObject(h) : \A i \in 1 .. Len(s) : StrictAllowed(s[i])

\* every name of the headers object is on the allow-list
AllowListed(h) ==
    \A i \in 1 .. Len(h.v) : ToLowerCase(h.v[i].name) \in SafeHeaderNames

\* C23 as stated: during one request of the guard the delegate's request is
\* called first with the permissive-sanitized headers; after a failure with
\* an invalid-header error it is called exactly once more, with the
\* strict-sanitized allow-listed subset; an error of that second call is
\* propagated; the delegate is never called more than twice.
C23_Original ==
    guard.op = "request" =>
        /\ Len(guard.calls) \in {1, 2}
        /\ \A i \in 1 .. Len(guard.calls) : guard.calls[i].op = "request"
        /\ PermissiveSanitized(guard.calls[1].headers)
        /\ Len(guard.calls) = 2 =>
              /\ AllowListed(guard.calls[2].headers)
              /\ StrictSanitized(guard.calls[2].headers)
        /\ guard.st = "Thrown" =>
              /\ guard.error.by = Len(guard.calls)
              /\ IsInvalidHeaderValue(guard.error.message) => Len(guard.calls) = 2

\* C24: when the first attempt of request fails with an error that does not
\* identify an invalid header value, the delegate is not called again and
\* that very error is thrown to the caller; when it succeeds, the delegate is
\* not called again and its result is returned.
C24_FirstAttemptFinal ==
    guard.op = "request" =>
        /\ (Len(guard.caught) >= 1 /\ ~IsInvalidHeaderValue(guard.caught[1].message)) =>
              /\ Len(guard.calls) = 1
              /\ guard.st = "Thrown"
              /\ guard.error = guard.caught[1]
              /\ ~guard.result.returned
        /\ (guard.st = "Returned" /\ guard.caught = <<>>) =>
              /\ Len(guard.calls) = 1
              /\ guard.result = [by |-> 1, returned |-> TRUE]
              /\ ~guard.error.thrown

\* C24 witness: the first attempt failed with a network error, which was
\* thrown after one delegate call.
C24_Witness ==
    /\ guard.op = "request" /\ guard.st = "Thrown"
    /\ guard.headers # Undef
    /\ guard.caught = <<DelegateError(<<"NetworkError">>, 1)>>
    /\ guard.error = DelegateError(<<"NetworkError">>, 1)
    /\ Len(guard.calls) = 1

\* the names of the entries of a headers object
NamesOf(h) == IF h = Undef THEN {} ELSE { h.v[i].name : i \in 1 .. Len(h.v) }

\* the name, compared without regard to case, is accept, accept-language,
\* content-type, content-length or user-agent
OnRetryAllowList(name) ==
    LET lower == [i \in 1 .. Len(name) |->
                     IF name[i] \in 65 .. 90 THEN name[i] + 32 ELSE name[i]]
    IN  lower \in { <<97, 99, 99, 101, 112, 116>>,
                    <<97, 99, 99, 101, 112, 116, 45, 108, 97, 110, 103, 117, 97, 103, 101>>,
                    <<99, 111, 110, 116, 101, 110, 116, 45, 116, 121, 112, 101>>,
                    <<99, 111, 110, 116, 101, 110, 116, 45, 108, 101, 110, 103, 116, 104>>,
                    <<117, 115, 101, 114, 45, 97, 103, 101, 110, 116>> }

\* C25: the headers of the retry are exactly the entries of the
\* permissive-sanitized headers of the first attempt whose name is, without
\* regard to case, on the allow-list, each once and in their order; no
\* other header, such as cookie or authorization, is among them.
C25_RetryAllowList ==
    Len(guard.calls) = 2 =>
        LET first == guard.calls[1].headers
            retry == guard.calls[2].headers
            kept == IF first = Undef THEN <<>>
                    ELSE SelectSeq(first.v, LAMBDA e : OnRetryAllowList(e.name))
        IN  /\ retry # Undef
            /\ Len(retry.v) = Len(kept)
            /\ \A i \in 1 .. Len(kept) :
                  /\ retry.v[i].name = kept[i].name
                  /\ retry.v[i].value.k = kept[i].value.k
            /\ <<99, 111, 111, 107, 105, 101>> \notin NamesOf(retry)
            /\ <<97, 117, 116, 104, 111, 114, 105, 122, 97, 116, 105, 111, 110>>
                   \notin NamesOf(retry)

\* C25 witness: the first attempt had Accept and cookie, the retry has
\* Accept alone.
C25_Witness ==
    /\ Len(guard.calls) = 2
    /\ NamesOf(guard.calls[1].headers)
           = { <<65, 99, 99, 101, 112, 116>>, <<99, 111, 111, 107, 105, 101>> }
    /\ NamesOf(guard.calls[2].headers) = { <<65, 99, 99, 101, 112, 116>> }

\* out is the permissive-sanitized form of the headers object h: the
\* entries of h under their sanitized names, without those whose name
\* sanitizes to nothing or to white space, each with its sanitized value
PermissiveFormOf(h, out) ==
    IF h = Undef THEN out = Undef
    ELSE /\ out # Undef
         /\ NamesOf(out) = { n \in { KeepAllowed(h.v[i].name) : i \in 1 .. Len(h.v) } :
                                ~Blank(n) }
         /\ Cardinality(NamesOf(out)) = Len(out.v)
         /\ \A i \in 1 .. Len(out.v) :
               out.v[i].value = PermissiveValue(LastNamed(h.v, out.v[i].name).value)

\* C26: connect hands the permissive-sanitized headers to the delegate's
\* connect, calls it exactly once and never again, also when it fails
\* (whatever the error says), and hands url, protocols, onopen, onmessage,
\* onclose and onerror over as it got them.
C26_ConnectOnce ==
    guard.op = "connect" =>
        /\ Len(guard.calls) = 1
        /\ guard.calls[1].op = "connect"
        /\ PermissiveFormOf(guard.headers, guard.calls[1].headers)
        /\ guard.calls[1].args = guard.args
        /\ guard.st = "Thrown" => guard.error.by = 1

\* C26 witness: the delegate's connect failed with an invalid-header error
\* and was not called again.
C26_Witness ==
    /\ guard.op = "connect" /\ guard.st = "Thrown"
    /\ IsInvalidHeaderValue(guard.error.message)
    /\ guard.headers # Undef
    /\ guard.args.protocols = <<"soap", "wamp">>
    /\ Len(guard.calls) = 1

\* C27 as stated: once the cancellation signal of a request has been
\* triggered the guard starts neither the first attempt nor the retry: no
\* call of the delegate's request is made with the signal aborted.
C27_Original ==
    guard.op = "request" =>
        \A i \in 1 .. Len(guard.calls) : ~guard.calls[i].aborted

\* the inner init has just resolved
InitCompletes == guard.st = "Initialising" /\ guard'.st = "Returned"

\* C28: ready is false when the guard has been constructed and changes only
\* when init completes; right after init has completed it equals the
\* delegate's ready; when the delegate's init fails it stays as it was,
\* false before the first successful init; init and meta call the
\* delegate's init and meta, once, and nothing else of the delegate.
C28_Ready ==
    /\ ~guard.ready
    /\ [][/\ guard'.ready # guard.ready => InitCompletes
          /\ InitCompletes => guard'.ready = guard'.innerReady
          /\ (guard.st = "Initialising" /\ guard'.st = "Thrown") =>
                 guard'.ready = guard.ready]_vars
    /\ [](guard.op \in {"init", "meta"} =>
              guard.calls = <<DelegateCall(guard.op, Undef, NoArgs, FALSE)>>)

\* C28 witness: init has completed with a delegate that is ready, and so is
\* the guard.
C28_Witness ==
    /\ guard.op = "init" /\ guard.st = "Returned"
    /\ guard.innerReady /\ guard.ready

\* C29: SafeEpoxyTransport and SafeLibcurlTransport, given the same calls
\* (init, meta, request, connect, with the same arguments and the same
\* moment of cancellation) and delegates that answer alike, are in the same
\* state at every step: the same delegate calls with the same headers, the
\* same result or error for the caller, the same ready.
C29_Equivalent == twin = guard

\* C29 witness: both guards have retried a request whose headers had a
\* line feed and a character above 0x7E to remove.
C29_Witness ==
    /\ twin.st = "Second" /\ guard.st = "Second"
    /\ guard.headers = Obj(<<[name |-> <<65, 99, 99, 101, 112, 116>>,
                              value |-> Str(<<97, LF, 233>>)]>>)
    /\ twin.calls[1].headers.v[1].value = Str(<<97, 233>>)
    /\ twin.calls[2].headers.v[1].value = Str(<<97>>)

\* C30: a request of the Application class that no route matches inside the
\* application handler is answered with a redirect to /404: the response
\* has the status 302 and the location /404, never the status 404, and it
\* stays so until the listener is done with the request.
C30_NotFoundRedirect ==
    (IsConn(cur) /\ cur.result = "notFound") =>
        /\ cur.kind = "request"
        /\ cur.cls = "Application"
        /\ cur.invoked = <<"handler">>
        /\ cur.res.statusCode = 302
        /\ cur.res.location = "/404"
        /\ cur.res.ended
        /\ cur.res.statusCode # 404

\* C30 witness: the listener has finished a request that no route of the
\* application matched, answered by the redirect.
C30_Witness ==
    /\ cur.st = "Terminal"
    /\ cur.cls = "Application"
    /\ cur.result = "notFound"
    /\ cur.res.statusCode = 302 /\ cur.res.location = "/404"

\* the objects a recorded call handed on
RefsOf(call) == { call.refs[k] : k \in 1 .. Len(call.refs) }

\* C31: sanitizeHeaders and the guards' request and connect never modify
\* the headers object they are given: it has after every later step the
\* content it had at the call, and what is handed on for a headers object
\* is a new object each time, never the caller's and never one handed on
\* before.  Two calls of the same function with equal inputs hand on equal
\* contents, whatever calls were made in between.
C31_Pure ==
    heap # NoObjects =>
        \A i \in 1 .. Len(heap.calls) :
            LET call == heap.calls[i]
            IN  /\ heap.objs[call.arg] = call.before
                /\ call.before # Undef =>
                      /\ call.arg \notin RefsOf(call)
                      /\ \A j \in 1 .. (i - 1) :
                            RefsOf(call) \cap RefsOf(heap.calls[j]) = {}
                /\ \A j \in 1 .. Len(heap.calls) :
                      (/\ heap.calls[j].fn = call.fn
                       /\ heap.calls[j].before = call.before
                       /\ heap.calls[j].retry = call.retry) =>
                          heap.calls[j].out = call.out

\* C31 witness: sanitizeHeaders was called twice on the same object, whose
\* entries it had to change, with a call on another object in between; the
\* object is as it was and the two results are equal.
C31_Witness ==
    /\ heap # NoObjects
    /\ Len(heap.calls) = 3
    /\ heap.calls[1].fn = "sanitizeHeaders" /\ heap.calls[3].fn = "sanitizeHeaders"
    /\ heap.calls[1].arg = 1 /\ heap.calls[3].arg = 1
    /\ heap.calls[2].arg = 2 /\ heap.calls[2].before # Undef
    /\ heap.objs[1] # Undef
    /\ heap.calls[1].out # <<heap.objs[1]>>
    /\ heap.calls[3].out = heap.calls[1].out

\* the calls of ip that were allowed in the window that started at w
AllowedInWindow(ip, w) ==
    { i \in 1 .. Len(admLog[ip]) :
          admLog[ip][i].allow /\ admLog[ip][i].after.windowStart = w }

\* C32: for every IP and every admission window of it (the calls between
\* two consecutive resets of its window), the number of calls allowed in
\* that window is at most the configured maxConnectionsPerIP, for any
\* sequence of admit calls and passing seconds.
C32_AllowsPerWindow ==
    \A ip \in IPs : \A w \in 0 .. MaxTime :
        Cardinality(AllowedInWindow(ip, w)) <= BareMaxConnectionsPerIP

\* C32 witness: an IP used its window up, was rejected, and was allowed
\* again in the next window.
C32_Witness ==
    \E ip \in IPs :
        LET log == admLog[ip]
        IN  /\ Len(log) >= BareMaxConnectionsPerIP + 2
            /\ Cardinality(AllowedInWindow(ip, 0)) = BareMaxConnectionsPerIP
            /\ ~log[BareMaxConnectionsPerIP + 1].allow
            /\ log[Len(log)].allow
            /\ log[Len(log)].after.windowStart > 0

\* ip has been rejected
HasBeenRejected(ip) == \E i \in 1 .. Len(admLog[ip]) : ~admLog[ip][i].allow

\* a single admit(ip) made now returns Allow
WouldAllow(ip) == admit(table[ip], now).allow

\* the end of the window of ip plus one block duration
ReadmissionTime(ip) ==
    table[ip].windowStart + BareWindowDuration + BareBlockDuration

\* C33: an IP that has been rejected is admitted again: from the end of
\* its window plus one block duration on, whenever that time is reached, a
\* single admit(ip) returns Allow (a block can be renewed by calls made
\* inside the window, never beyond that time); and while time keeps
\* advancing every rejected IP whose readmission time lies within the time
\* followed reaches a state in which a single admit(ip) returns Allow.
C33_Readmitted ==
    /\ [](\A ip \in IPs :
             (HasBeenRejected(ip) /\ now >= ReadmissionTime(ip)) => WouldAllow(ip))
    /\ \A ip \in IPs :
          (HasBeenRejected(ip) /\ ReadmissionTime(ip) <= MaxTime) ~> WouldAllow(ip)

\* C33 witness: an IP was rejected, its block was renewed by a call inside
\* the same window, and it is at its readmission time.
C33_Witness ==
    \E ip \in IPs :
        LET log == admLog[ip]
        IN  /\ Len(log) = BareMaxConnectionsPerIP + 2
            /\ ~log[Len(log) - 1].allow
            /\ ~log[Len(log)].allow
            /\ log[Len(log)].after.blockedUntil > log[Len(log) - 1].after.blockedUntil
            /\ now = ReadmissionTime(ip)
            /\ WouldAllow(ip)

\* C34: in src/unnamed/part_000 a request with the method OPTIONS is
\* answered by the listener with the status 204 and the CORS headers and is
\* forwarded to no downstream handler, under the tunnel-protocol prefix as
\* well; a request with another method gets the CORS headers and goes to
\* the tunnel-protocol handler when its path is under the prefix and to the
\* application handler otherwise.
C34_Preflight ==
    (variant = "part_000" /\ cur.kind = "request") =>
        IF cur.method = "OPTIONS"
        THEN /\ cur.invoked = <<>>
             /\ cur.calls = <<>>
             /\ cur.st # "Received" =>
                   /\ cur.res.statusCode = 204
                   /\ cur.res.cors
                   /\ cur.res.ended
                   /\ cur.res.endedBy = "dispatcher"
        ELSE Done =>
                /\ cur.res.cors
                /\ cur.invoked = <<IF StartsWith(cur.url, BareDirectory)
                                   THEN "bareServer.routeRequest" ELSE "handler">>

\* C34 witness: part_000 has answered an OPTIONS request under the
\* tunnel-protocol prefix with 204.
C34_Witness ==
    /\ variant = "part_000" /\ Done
    /\ cur.kind = "request" /\ cur.method = "OPTIONS"
    /\ StartsWith(cur.url, BareDirectory)
    /\ cur.res.statusCode = 204 /\ cur.res.cors
    /\ cur.invoked = <<>>

\* what parseInt is known to return for the values of the environment
KnownParseInt(value) ==
    CASE value = Undef -> NaN                              \* parseInt(undefined)
      [] value = Str(<<>>) -> NaN                          \* ""
      [] value = Str(<<48>>) -> Num(0)                     \* "0"
      [] value = Str(<<45, 48>>) -> Num(0)                 \* "-0"
      [] value = Str(<<48, 48>>) -> Num(0)                 \* "00"
      [] value = Str(<<49, 50>>) -> Num(12)                \* "12"
      [] value = Str(<<45, 53>>) -> Num(-5)                \* "-5"
      [] value = Str(<<97, 98, 99>>) -> NaN                \* "abc"
      [] value = Str(<<49, 50, 112, 120>>) -> Num(12)      \* "12px"
      [] value = Str(<<SP, 43, 55>>) -> Num(7)             \* " +7"
      [] value = Str(<<48, 120, 49, 102>>) -> Num(31)      \* "0x1f"
      [] value = Str(<<51, 46, 57>>) -> Num(3)             \* "3.9"

\* the configured value for an environment value: the default when the
\* variable is unset, does not parse, or parses to 0; the parsed integer
\* otherwise
Configured(value, default) ==
    IF KnownParseInt(value) = NaN \/ KnownParseInt(value).v = 0
    THEN default
    ELSE KnownParseInt(value).v

\* C35: maxConnectionsPerIP, windowDuration, blockDuration and the port are
\* the defaults 1000, 60, 30 and 8080 exactly when their environment
\* variable is unset, does not parse as an integer or parses to 0; any
\* other parsed integer, a negative one included, is used as given.
C35_Defaults ==
    config # NoConfig =>
        /\ config.maxConnectionsPerIP =
               Configured(config.env["BARE_MAX_CONNECTIONS_PER_IP"], DefaultMaxConnectionsPerIP)
        /\ config.windowDuration =
               Configured(config.env["BARE_WINDOW_DURATION"], DefaultWindowDuration)
        /\ config.blockDuration =
               Configured(config.env["BARE_BLOCK_DURATION"], DefaultBlockDuration)
        /\ config.port = Configured(config.env["PORT"], DefaultPort)

\* C35 witness: the server started with BARE_MAX_CONNECTIONS_PER_IP=-5,
\* BARE_WINDOW_DURATION=0, BARE_BLOCK_DURATION=abc and no PORT.
C35_Witness ==
    /\ config # NoConfig
    /\ config.env["BARE_MAX_CONNECTIONS_PER_IP"] = Str(<<45, 53>>)
    /\ config.env["BARE_WINDOW_DURATION"] = Str(<<48>>)
    /\ config.env["BARE_BLOCK_DURATION"] = Str(<<97, 98, 99>>)
    /\ config.env["PORT"] = Undef
    /\ config.maxConnectionsPerIP = -5
    /\ config.windowDuration = 60
    /\ config.blockDuration = 30
    /\ config.port = 8080

\* the getInstance call c has resolved
Resolved(c) ==
    /\ c \in DOMAIN settings.calls
    /\ settings.calls[c].st = "Resolved"

\* C36: Settings.getInstance() never resolves while no Settings has been
\* constructed, a call resolves only with the first-constructed instance,
\* and once an instance has been constructed (before or after the call)
\* every call that was made eventually resolves.
C36_FirstInstance ==
    /\ [](\A c \in 1..MaxGetInstanceCalls :
            Resolved(c) => /\ settings.made >= 1
                           /\ settings.calls[c].value = 1)
    /\ \A c \in 1..MaxGetInstanceCalls :
            (c \in DOMAIN settings.calls /\ settings.made >= 1) ~> Resolved(c)

\* C36 witness: a call made before any construction polled, and resolved
\* with the first instance after a second one had been constructed; a call
\* made after the constructions resolved with the first instance too.
C36_Witness ==
    /\ settings.made >= 2
    /\ \E c, d \in DOMAIN settings.calls :
          /\ settings.calls[c].st = "Resolved"
          /\ settings.calls[c].interval = "cleared"
          /\ settings.calls[c].value = 1
          /\ settings.calls[d].st = "Resolved"
          /\ settings.calls[d].interval = "none"
          /\ settings.calls[d].value = 1

=============================================================================
